---- MODULE Spec2Model ----
(***************************************************************************)
(* A model of the query engine of rdbms-challenge: the Schema Catalog      *)
(* (database/schema.py), the Index Set (database/indexer.py), the Row      *)
(* Store (database/storage.py), the Executor (database/executor.py) and    *)
(* the SQL Parser (database/parser.py): the engine is driven by structured *)
(* commands as the parser hands them to the executor.                      *)
(***************************************************************************)
EXTENDS Integers, Sequences, FiniteSets, TLC

(***************************************************************************)
(* Bounds of the model.                                                    *)
(***************************************************************************)
\* most rows a table is allowed to grow to by INSERT
MaxRows == 2
\* largest integer literal of a command
MaxInt == 2

(***************************************************************************)
(* Python scalar values.  A value is a record [k, n, s]: k is the Python   *)
(* type, n the number (int, bool as 0/1; float in tenths), s the text.     *)
(***************************************************************************)
Null == [k |-> "null", n |-> 0, s |-> ""]
IntV(i) == [k |-> "int", n |-> i, s |-> ""]
StrV(x) == [k |-> "str", n |-> 0, s |-> x]
BoolV(b) == [k |-> "bool", n |-> IF b THEN 1 ELSE 0, s |-> ""]
FloatV(tenths) == [k |-> "float", n |-> tenths, s |-> ""]

IsNumber(v) == v.k \in {"int", "bool", "float"}
\* the numeric value in tenths, so that 1 == True == 1.0 as in Python
Tenths(v) == IF v.k = "float" THEN v.n ELSE 10 * v.n

\* Python ==
PyEq(a, b) ==
    IF IsNumber(a) /\ IsNumber(b) THEN Tenths(a) = Tenths(b)
    ELSE IF a.k = "str" /\ b.k = "str" THEN a.s = b.s
    ELSE a.k = "null" /\ b.k = "null"

\* the texts of the model in lexicographic (code point) order
StrOrder == <<"", "1", "2", "3", "True", "a", "ab", "abc", "b", "zz">>
StrRank(x) == CHOOSE i \in 1..Len(StrOrder) : StrOrder[i] = x

\* Python <, >, <=, >= raise TypeError unless both are numbers or both text
Comparable(a, b) ==
    \/ IsNumber(a) /\ IsNumber(b)
    \/ a.k = "str" /\ b.k = "str"
PyLess(a, b) ==
    IF a.k = "str" THEN StrRank(a.s) < StrRank(b.s) ELSE Tenths(a) < Tenths(b)

(***************************************************************************)
(* Text conversions: str(), int(), float(), str.lower().                   *)
(***************************************************************************)
Digits == <<"0", "1", "2", "3", "4", "5", "6", "7", "8", "9">>
RECURSIVE StrOfNat(_)
StrOfNat(i) ==
    IF i < 10 THEN Digits[i + 1] ELSE StrOfNat(i \div 10) \o Digits[(i % 10) + 1]
StrOfInt(i) == IF i < 0 THEN "-" \o StrOfNat(0 - i) ELSE StrOfNat(i)
\* repr of a float held in tenths: 37 -> "3.7", 10 -> "1.0"
StrOfFloat(tenths) ==
    IF tenths < 0
    THEN "-" \o StrOfNat((0 - tenths) \div 10) \o "." \o Digits[((0 - tenths) % 10) + 1]
    ELSE StrOfNat(tenths \div 10) \o "." \o Digits[(tenths % 10) + 1]
\* str(value)
PyStr(v) ==
    CASE v.k = "str" -> v.s
      [] v.k = "int" -> StrOfInt(v.n)
      [] v.k = "bool" -> IF v.n = 1 THEN "True" ELSE "False"
      [] v.k = "float" -> StrOfFloat(v.n)
      [] OTHER -> "None"

\* the integers whose decimal numerals the model can parse back
NumeralRange == (0 - 9)..20
IntNumerals == [i \in NumeralRange |-> StrOfInt(i)]
IsIntNumeral(x) == \E i \in NumeralRange : IntNumerals[i] = x
IntOfStr(x) == CHOOSE i \in NumeralRange : IntNumerals[i] = x
\* the floats, in tenths, whose numerals the model can parse back
FloatRange == (0 - 99)..99
FloatNumerals == [i \in FloatRange |-> StrOfFloat(i)]
IsFloatNumeral(x) ==
    \/ IsIntNumeral(x)
    \/ \E i \in FloatRange : FloatNumerals[i] = x
FloatOfStr(x) ==
    IF IsIntNumeral(x) THEN 10 * IntOfStr(x)
    ELSE CHOOSE i \in FloatRange : FloatNumerals[i] = x
\* truncation toward zero of a float held in tenths: int(3.7) = 3, int(-3.7) = -3
TruncTenths(tenths) ==
    IF tenths < 0 THEN 0 - ((0 - tenths) \div 10) ELSE tenths \div 10
\* value.lower() for the texts BOOLEAN looks at
Lower(x) ==
    CASE x \in {"True", "TRUE", "true"} -> "true"
      [] x \in {"False", "FALSE", "false"} -> "false"
      [] x \in {"Yes", "YES", "yes"} -> "yes"
      [] x \in {"No", "NO", "no"} -> "no"
      [] OTHER -> x

(***************************************************************************)
(* Schema Catalog (database/schema.py).                                    *)
(***************************************************************************)
\* max_length = None
NoLength == 0 - 1
\* primary_key = None
NoPK == ""

Column(name, data_type, max_length, nullable) ==
    [name |-> name, data_type |-> data_type, max_length |-> max_length,
     nullable |-> nullable]

Ok(v) == [ok |-> TRUE, v |-> v, msg |-> ""]
Err(msg) == [ok |-> FALSE, v |-> Null, msg |-> msg]

\* `if self.max_length and ...`: None and 0 are both false
Truthy(max_length) == max_length # NoLength /\ max_length # 0

\* Column.validate_value
validate_value(column, value) ==
    IF value.k = "null"
    THEN IF ~column.nullable THEN Err("cannot be NULL") ELSE Ok(Null)
    ELSE CASE column.data_type = "INTEGER" ->
                  IF value.k \in {"int", "bool"} THEN Ok(value)
                  ELSE IF value.k = "float" THEN Ok(IntV(TruncTenths(value.n)))
                  ELSE IF IsIntNumeral(value.s) THEN Ok(IntV(IntOfStr(value.s)))
                  ELSE Err("Cannot convert to INTEGER")
           [] column.data_type = "FLOAT" ->
                  IF IsNumber(value) THEN Ok(FloatV(Tenths(value)))
                  ELSE IF IsFloatNumeral(value.s) THEN Ok(FloatV(FloatOfStr(value.s)))
                  ELSE Err("Cannot convert to FLOAT")
           [] column.data_type = "VARCHAR" ->
                  IF Truthy(column.max_length) /\ Len(PyStr(value)) > column.max_length
                  THEN Err("exceeds max length")
                  ELSE Ok(StrV(PyStr(value)))
           [] column.data_type = "BOOLEAN" ->
                  IF value.k = "bool" THEN Ok(value)
                  ELSE IF value.k = "str" /\ Lower(value.s) \in {"true", "1", "yes"}
                  THEN Ok(BoolV(TRUE))
                  ELSE IF value.k = "str" /\ Lower(value.s) \in {"false", "0", "no"}
                  THEN Ok(BoolV(FALSE))
                  ELSE Err("Cannot convert to BOOLEAN")
           [] OTHER -> Ok(value)

\* TableSchema.get_column_names
get_column_names(schema) == [i \in 1..Len(schema.columns) |-> schema.columns[i].name]
ColumnNameSet(schema) == {schema.columns[i].name : i \in 1..Len(schema.columns)}
\* TableSchema.get_column: the first column of that name
get_column(schema, column_name) ==
    schema.columns[CHOOSE i \in 1..Len(schema.columns) :
        /\ schema.columns[i].name = column_name
        /\ \A j \in 1..(i - 1) : schema.columns[j].name # column_name]

\* a turn that takes every missing column for null
ColumnResultLenient(column, row) ==
    IF column.name \notin DOMAIN row THEN Ok(Null)
    ELSE validate_value(column, row[column.name])

\* one turn of the loop of validate_row over the schema's columns
ColumnResult(column, row) ==
    IF column.name \notin DOMAIN row
    THEN IF ~column.nullable THEN Err("Missing required column") ELSE Ok(Null)
    ELSE validate_value(column, row[column.name])

\* TableSchema.validate_row: [ok, row, msg, input]; input is the dict that was
\* passed in, as it is after the call: the method reads it and writes only to
\* its own validated_row
validate_row(schema, row) ==
    LET n == Len(schema.columns)
        res == [i \in 1..n |-> ColumnResult(schema.columns[i], row)]
        bad == {i \in 1..n : ~res[i].ok}
        \* a later column of the same name overwrites the earlier entry
        lastOf(c) == CHOOSE i \in 1..n :
            /\ schema.columns[i].name = c
            /\ \A j \in (i + 1)..n : schema.columns[j].name # c
    IN  IF bad # {}
        THEN [ok |-> FALSE, row |-> <<>>,
              msg |-> res[CHOOSE i \in bad : \A j \in bad : i <= j].msg, input |-> row]
        ELSE IF DOMAIN row \ ColumnNameSet(schema) # {}
        THEN [ok |-> FALSE, row |-> <<>>, msg |-> "Unknown column", input |-> row]
        ELSE [ok |-> TRUE, row |-> [c \in ColumnNameSet(schema) |-> res[lastOf(c)].v],
              msg |-> "", input |-> row]

(***************************************************************************)
(* Index Set (database/indexer.py).  An index is [column_name, unique,     *)
(* index_map]; index_map maps a value to the list of row positions.  The   *)
(* indexes of a table are kept in creation order, the order in which       *)
(* IndexManager.indexes[table] enumerates them.                            *)
(***************************************************************************)
\* dict.get on a row
Get(row, key) == IF key \in DOMAIN row THEN row[key] ELSE Null

\* Index.__init__
NewIndex(column_name, unique) ==
    [column_name |-> column_name, unique |-> unique, index_map |-> <<>>]

\* `value in self.index_map`: dict membership goes by hash and ==
HasKey(index_map, value) == \E key \in DOMAIN index_map : PyEq(key, value)
\* the key already in the dict that equals value
KeyOf(index_map, value) == CHOOSE key \in DOMAIN index_map : PyEq(key, value)

\* Index.lookup
lookup(index, value) ==
    IF HasKey(index.index_map, value)
    THEN index.index_map[KeyOf(index.index_map, value)]
    ELSE <<>>

\* an add that does not test a unique index for the value
add_unchecked(index, value, row_idx) ==
    IF value.k = "null" THEN [ok |-> TRUE, index |-> index, msg |-> ""]
    ELSE LET m == index.index_map
             key == IF HasKey(m, value) THEN KeyOf(m, value) ELSE value
             bucket == IF HasKey(m, value) THEN m[key] ELSE <<>>
         IN  [ok |-> TRUE,
              index |-> [index EXCEPT !.index_map =
                  [x \in DOMAIN m \cup {key} |->
                      IF x = key THEN Append(bucket, row_idx) ELSE m[x]]],
              msg |-> ""]

\* Index.add: [ok, index, msg]
add(index, value, row_idx) ==
    IF value.k = "null" THEN [ok |-> TRUE, index |-> index, msg |-> ""]
    ELSE IF index.unique /\ HasKey(index.index_map, value)
    THEN [ok |-> FALSE, index |-> index, msg |-> "violates unique constraint"]
    ELSE LET m == index.index_map
             key == IF HasKey(m, value) THEN KeyOf(m, value) ELSE value
             bucket == IF HasKey(m, value) THEN m[key] ELSE <<>>
         IN  [ok |-> TRUE,
              index |-> [index EXCEPT !.index_map =
                  [x \in DOMAIN m \cup {key} |->
                      IF x = key THEN Append(bucket, row_idx) ELSE m[x]]],
              msg |-> ""]

\* a remove that leaves the bucket in place when it has become empty
remove_keep_bucket(index, value, row_idx) ==
    IF value.k = "null" \/ ~HasKey(index.index_map, value) THEN index
    ELSE [index EXCEPT !.index_map[KeyOf(index.index_map, value)] =
             SelectSeq(@, LAMBDA p : p # row_idx)]

\* Index.remove
remove(index, value, row_idx) ==
    IF value.k = "null" \/ ~HasKey(index.index_map, value) THEN index
    ELSE LET m == index.index_map
             key == KeyOf(m, value)
             kept == SelectSeq(m[key], LAMBDA p : p # row_idx)
             first == IF \E i \in 1..Len(m[key]) : m[key][i] = row_idx
                      THEN CHOOSE i \in 1..Len(m[key]) :
                               /\ m[key][i] = row_idx
                               /\ \A j \in 1..(i - 1) : m[key][j] # row_idx
                      ELSE 0
             \* list.remove takes out the first occurrence only
             bucket == IF first = 0 THEN m[key]
                       ELSE [i \in 1..(Len(m[key]) - 1) |->
                                IF i < first THEN m[key][i] ELSE m[key][i + 1]]
         IN  IF bucket = <<>>
             THEN [index EXCEPT !.index_map = [x \in DOMAIN m \ {key} |-> m[x]]]
             ELSE [index EXCEPT !.index_map = [m EXCEPT ![key] = bucket]]

\* the loop of Index.build from row position i (0-based) on
RECURSIVE BuildFrom(_, _, _)
BuildFrom(index, rows, i) ==
    IF i >= Len(rows) THEN [ok |-> TRUE, index |-> index, msg |-> ""]
    ELSE LET value == Get(rows[i + 1], index.column_name)
             r == IF value.k # "null" THEN add(index, value, i)
                  ELSE [ok |-> TRUE, index |-> index, msg |-> ""]
         IN  IF r.ok THEN BuildFrom(r.index, rows, i + 1) ELSE r

\* Index.build: clears, then adds row by row; a raise leaves what was added
build(index, rows) == BuildFrom([index EXCEPT !.index_map = <<>>], rows, 0)

\* IndexManager.get_index: the position of the index in indexes[table], 0 for None
IndexPos(indexes, table_name, column_name) ==
    IF table_name \in DOMAIN indexes
       /\ \E i \in 1..Len(indexes[table_name]) :
              indexes[table_name][i].column_name = column_name
    THEN CHOOSE i \in 1..Len(indexes[table_name]) :
             indexes[table_name][i].column_name = column_name
    ELSE 0
HasIndex(indexes, table_name, column_name) ==
    IndexPos(indexes, table_name, column_name) # 0
get_index(indexes, table_name, column_name) ==
    indexes[table_name][IndexPos(indexes, table_name, column_name)]

\* IndexManager.create_index: [ok, indexes, msg]
create_index(indexes, table_name, column_name, unique) ==
    LET withTable == IF table_name \in DOMAIN indexes THEN indexes
                     ELSE [x \in DOMAIN indexes \cup {table_name} |->
                              IF x = table_name THEN <<>> ELSE indexes[x]]
    IN  IF HasIndex(withTable, table_name, column_name)
        THEN [ok |-> FALSE, indexes |-> withTable, msg |-> "Index already exists"]
        ELSE [ok |-> TRUE,
              indexes |-> [withTable EXCEPT ![table_name] =
                  Append(@, NewIndex(column_name, unique))],
              msg |-> ""]

\* a drop_table_indexes that forgets the indexes of every table
drop_all_indexes(indexes, table_name) == <<>>

\* a drop_table_indexes that leaves the table's indexes in place
keep_table_indexes(indexes, table_name) == indexes

\* IndexManager.drop_table_indexes
drop_table_indexes(indexes, table_name) ==
    [x \in DOMAIN indexes \ {table_name} |-> indexes[x]]

\* the loop of rebuild_indexes from the i-th index of the table on
RECURSIVE RebuildFrom(_, _, _, _)
RebuildFrom(indexes, table_name, rows, i) ==
    IF i > Len(indexes[table_name]) THEN [ok |-> TRUE, indexes |-> indexes, msg |-> ""]
    ELSE LET r == build(indexes[table_name][i], rows)
             next == [indexes EXCEPT ![table_name][i] = r.index]
         IN  IF r.ok THEN RebuildFrom(next, table_name, rows, i + 1)
             ELSE [ok |-> FALSE, indexes |-> next, msg |-> r.msg]

\* a rebuild_indexes that leaves every index as it is
rebuild_nothing(indexes, table_name, rows) ==
    [ok |-> TRUE, indexes |-> indexes, msg |-> ""]

\* IndexManager.rebuild_indexes: [ok, indexes, msg]
rebuild_indexes(indexes, table_name, rows) ==
    IF table_name \in DOMAIN indexes THEN RebuildFrom(indexes, table_name, rows, 1)
    ELSE [ok |-> TRUE, indexes |-> indexes, msg |-> ""]

(***************************************************************************)
(* Row Store (database/storage.py).  The engine state S is the record      *)
(* [schemas, tables, indexes, data_file, disk]: schemas maps a table name  *)
(* to its TableSchema, tables maps a table name to its list of rows (a row *)
(* maps column names to values), data_file tells whether a storage         *)
(* location is configured and disk is the file at that location.           *)
(***************************************************************************)
\* json.dump of one scalar: the JSON literal
ToJson(v) ==
    CASE v.k = "null" -> [j |-> "null", text |-> "null"]
      [] v.k = "bool" -> [j |-> "bool", text |-> IF v.n = 1 THEN "true" ELSE "false"]
      [] v.k = "int" -> [j |-> "number", text |-> StrOfInt(v.n)]
      [] v.k = "float" -> [j |-> "number", text |-> StrOfFloat(v.n)]
      [] OTHER -> [j |-> "string", text |-> v.s]
\* json.load of one scalar
FromJson(x) ==
    CASE x.j = "null" -> Null
      [] x.j = "bool" -> BoolV(x.text = "true")
      [] x.j = "number" -> IF IsIntNumeral(x.text) THEN IntV(IntOfStr(x.text))
                           ELSE FloatV(FloatOfStr(x.text))
      [] OTHER -> StrV(x.text)
JsonDump(tables) ==
    [t \in DOMAIN tables |->
        [i \in 1..Len(tables[t]) |->
            [c \in DOMAIN tables[t][i] |-> ToJson(tables[t][i][c])]]]
JsonLoad(doc) ==
    [t \in DOMAIN doc |->
        [i \in 1..Len(doc[t]) |->
            [c \in DOMAIN doc[t][i] |-> FromJson(doc[t][i][c])]]]

\* no file at the storage location
NoFile == [exists |-> FALSE, doc |-> <<>>]
File(doc) == [exists |-> TRUE, doc |-> doc]

\* StorageEngine._save_to_disk
save_to_disk(S) ==
    IF S.data_file THEN [S EXCEPT !.disk = File(JsonDump(S.tables))] ELSE S

\* StorageEngine.load_from_disk
load_from_disk(S) ==
    IF S.data_file /\ S.disk.exists THEN [S EXCEPT !.tables = JsonLoad(S.disk.doc)]
    ELSE S

\* StorageEngine.__init__ followed by SchemaManager() and IndexManager()
NewEngine(data_file, disk) ==
    load_from_disk([schemas |-> <<>>, tables |-> <<>>, indexes |-> <<>>,
                    data_file |-> data_file, disk |-> disk])

\* a dict with one more (or one replaced) entry
Put(f, key, value) ==
    [x \in DOMAIN f \cup {key} |-> IF x = key THEN value ELSE f[x]]
\* a dict without an entry
Del(f, key) == [x \in DOMAIN f \ {key} |-> f[x]]

\* StorageEngine.table_exists
table_exists(S, table_name) == table_name \in DOMAIN S.tables

\* StorageEngine.create_table, after its existence check
create_table(S, table_name) ==
    save_to_disk([S EXCEPT !.tables = Put(S.tables, table_name, <<>>)])

\* a drop_table that leaves the table's rows in the Row Store
drop_table_keep(S, table_name) == save_to_disk(S)

\* StorageEngine.drop_table, after its existence check
drop_table(S, table_name) ==
    save_to_disk([S EXCEPT !.tables = Del(S.tables, table_name)])

\* an insert_row that puts the new row first
insert_row_prepend(S, table_name, row) ==
    save_to_disk([S EXCEPT !.tables[table_name] = <<row>> \o @])

\* StorageEngine.insert_row, after its existence check
insert_row(S, table_name, row) ==
    save_to_disk([S EXCEPT !.tables[table_name] = Append(@, row)])

\* StorageEngine.get_all_rows: a new list of the same row objects
get_all_rows(S, table_name) == S.tables[table_name]

\* an update_rows that writes the snapshot but keeps the rows it had
update_rows_keep(S, table_name, updated_rows) == save_to_disk(S)

\* StorageEngine.update_rows, after its existence check
update_rows(S, table_name, updated_rows) ==
    save_to_disk([S EXCEPT !.tables[table_name] = updated_rows])

(***************************************************************************)
(* Executor (database/executor.py).  Every command operator gives          *)
(* [S, result]: the engine state after the command and the envelope.       *)
(***************************************************************************)
\* a result dict; raised is set on what stands for an exception instead
Envelope(success, message) ==
    [success |-> success, message |-> message, data |-> <<>>, columns |-> <<>>,
     raised |-> FALSE]
\* an exception leaves the handler in place of a result dict; message is its
\* str(e), and success is FALSE as the command did not succeed
Raise(message) == [Envelope(FALSE, message) EXCEPT !.raised = TRUE]
\* the envelope of `except Exception as e` in execute
Caught(message) == Envelope(FALSE, "Error: " \o message)
Done(S, result) == [S |-> S, result |-> result]

DataTypes == {"INTEGER", "VARCHAR", "BOOLEAN", "FLOAT"}

\* SchemaManager.create_table_schema: "" when it stores the schema, else the error
create_table_schema_error(S, table_name, columns, primary_key, unique_constraints) ==
    LET names == {columns[i].name : i \in 1..Len(columns)}
    IN  IF table_name \in DOMAIN S.schemas THEN "Table schema already exists"
        ELSE IF primary_key # NoPK /\ primary_key \notin names
        THEN "Primary key is not a column"
        ELSE IF \E i \in 1..Len(unique_constraints) : unique_constraints[i] \notin names
        THEN "Unique constraint is not a column"
        ELSE ""

\* the TableSchema that create_table_schema stores
NewSchema(columns, primary_key, unique_constraints) ==
    [columns |-> columns, primary_key |-> primary_key,
     unique_constraints |-> {unique_constraints[i] : i \in 1..Len(unique_constraints)},
     indexes |-> IF primary_key # NoPK THEN {primary_key} ELSE {}]

\* a loop that creates no index for the unique constraints
CreateNoUniqueIndexes(indexes, table_name, primary_key, order, i) ==
    [ok |-> TRUE, indexes |-> indexes, msg |-> ""]

\* the loop over schema.unique_constraints of _execute_create_table,
\* order being the order in which the set is enumerated
RECURSIVE CreateUniqueIndexes(_, _, _, _, _)
CreateUniqueIndexes(indexes, table_name, primary_key, order, i) ==
    IF i > Len(order) THEN [ok |-> TRUE, indexes |-> indexes, msg |-> ""]
    ELSE IF order[i] = primary_key
    THEN CreateUniqueIndexes(indexes, table_name, primary_key, order, i + 1)
    ELSE LET r == create_index(indexes, table_name, order[i], TRUE)
         IN  IF r.ok
             THEN CreateUniqueIndexes(r.indexes, table_name, primary_key, order, i + 1)
             ELSE r

\* QueryExecutor._execute_create_table
execute_create_table(S, parsed, order) ==
    LET table_name == parsed.table
        columns == [i \in 1..Len(parsed.columns) |->
                       Column(parsed.columns[i].name, parsed.columns[i].type,
                              parsed.columns[i].max_length, parsed.columns[i].nullable)]
        err == create_table_schema_error(S, table_name, columns, parsed.primary_key,
                                         parsed.unique_columns)
        schema == NewSchema(columns, parsed.primary_key, parsed.unique_columns)
        S1 == [S EXCEPT !.schemas = Put(S.schemas, table_name, schema)]
        S2 == create_table(S1, table_name)
        pk == IF schema.primary_key # NoPK
              THEN create_index(S2.indexes, table_name, schema.primary_key, TRUE)
              ELSE [ok |-> TRUE, indexes |-> S2.indexes, msg |-> ""]
        uq == CreateUniqueIndexes(pk.indexes, table_name, schema.primary_key, order, 1)
    IN  IF \E i \in 1..Len(parsed.columns) : parsed.columns[i].type \notin DataTypes
        THEN Done(S, Raise("KeyError"))
        ELSE IF err # "" THEN Done(S, Raise(err))
        ELSE IF table_exists(S1, table_name)
        THEN Done(S1, Raise("Table already exists"))
        ELSE IF ~pk.ok THEN Done([S2 EXCEPT !.indexes = pk.indexes], Raise(pk.msg))
        ELSE IF ~uq.ok THEN Done([S2 EXCEPT !.indexes = uq.indexes], Raise(uq.msg))
        ELSE Done([S2 EXCEPT !.indexes = uq.indexes],
                  Envelope(TRUE, "Table created successfully"))

\* QueryExecutor._execute_drop_table
execute_drop_table(S, parsed) ==
    LET table_name == parsed.table
        S1 == [S EXCEPT !.schemas = Del(S.schemas, table_name)]
    IN  IF table_name \notin DOMAIN S.schemas
        THEN Done(S, Envelope(FALSE, "Table does not exist"))
        ELSE IF ~table_exists(S1, table_name)
        THEN Done(S1, Raise("Table does not exist"))
        ELSE Done([drop_table(S1, table_name) EXCEPT
                      !.indexes = drop_table_indexes(S.indexes, table_name)],
                  Envelope(TRUE, "Table dropped successfully"))

\* a pairing that gives the first key the last value
ZipReversed(keys, values) ==
    [c \in {keys[i] : i \in 1..Len(keys)} |->
        values[Len(values) + 1 - (CHOOSE i \in 1..Len(keys) : keys[i] = c)]]

\* dict(zip(keys, values)): pairs up to the shorter length, a later pair wins
ZipDict(keys, values) ==
    LET n == IF Len(keys) < Len(values) THEN Len(keys) ELSE Len(values)
    IN  [c \in {keys[i] : i \in 1..n} |->
            values[CHOOSE i \in 1..n :
                /\ keys[i] = c
                /\ \A j \in (i + 1)..n : keys[j] # c]]

\* the uniqueness checks of _execute_insert: "" when they all pass
insert_duplicate(S, table_name, schema, validated_row) ==
    LET hit(col_name) ==
            /\ HasIndex(S.indexes, table_name, col_name)
            /\ Get(validated_row, col_name).k # "null"
            /\ lookup(get_index(S.indexes, table_name, col_name),
                      Get(validated_row, col_name)) # <<>>
    IN  IF \E col_name \in schema.unique_constraints : hit(col_name)
        THEN "Duplicate value for unique column"
        ELSE IF schema.primary_key # NoPK /\ hit(schema.primary_key)
        THEN "Duplicate primary key value"
        ELSE ""

\* a loop that enters the new row into no index
InsertIntoNoIndex(indexes, table_name, validated_row, row_idx, i) ==
    [ok |-> TRUE, indexes |-> indexes, msg |-> ""]

\* the loop `for col_name, index in self.index_mgr.indexes[table_name].items()`
\* of _execute_insert, from the i-th index on
RECURSIVE InsertIntoIndexes(_, _, _, _, _)
InsertIntoIndexes(indexes, table_name, validated_row, row_idx, i) ==
    IF i > Len(indexes[table_name]) THEN [ok |-> TRUE, indexes |-> indexes, msg |-> ""]
    ELSE LET index == indexes[table_name][i]
             value == Get(validated_row, index.column_name)
             r == IF value.k # "null" THEN add(index, value, row_idx)
                  ELSE [ok |-> TRUE, index |-> index, msg |-> ""]
         IN  IF r.ok
             THEN InsertIntoIndexes([indexes EXCEPT ![table_name][i] = r.index],
                                    table_name, validated_row, row_idx, i + 1)
             ELSE [ok |-> FALSE, indexes |-> indexes, msg |-> r.msg]

\* QueryExecutor._execute_insert
execute_insert(S, parsed) ==
    LET table_name == parsed.table
        schema == S.schemas[table_name]
        named == parsed.columns # <<>>
        row == IF named THEN ZipDict(parsed.columns, parsed.values)
               ELSE ZipDict(get_column_names(schema), parsed.values)
        v == validate_row(schema, row)
        dup == insert_duplicate(S, table_name, schema, v.row)
        S1 == insert_row(S, table_name, v.row)
        row_idx == Len(get_all_rows(S1, table_name)) - 1
        ix == IF table_name \in DOMAIN S1.indexes
              THEN InsertIntoIndexes(S1.indexes, table_name, v.row, row_idx, 1)
              ELSE [ok |-> TRUE, indexes |-> S1.indexes, msg |-> ""]
    IN  IF table_name \notin DOMAIN S.schemas
        THEN Done(S, Envelope(FALSE, "Table does not exist"))
        ELSE IF named /\ Len(parsed.columns) # Len(parsed.values)
        THEN Done(S, Envelope(FALSE, "Column count doesn't match value count"))
        ELSE IF ~named /\ Len(parsed.values) # Len(schema.columns)
        THEN Done(S, Envelope(FALSE, "Expected other number of values"))
        ELSE IF ~v.ok THEN Done(S, Envelope(FALSE, v.msg))
        ELSE IF dup # "" THEN Done(S, Envelope(FALSE, dup))
        ELSE IF ~table_exists(S, table_name)
        THEN Done(S, Raise("Table does not exist"))
        ELSE IF ~ix.ok THEN Done([S1 EXCEPT !.indexes = ix.indexes], Raise(ix.msg))
        ELSE Done([S1 EXCEPT !.indexes = ix.indexes],
                  Envelope(TRUE, "Row inserted"))

\* where = None
NoWhere == <<>>
\* join = None
NoJoin == [table |-> "", conditions |-> <<>>]
\* order_by = None
NoOrder == ""
\* limit = None
NoLimit == 0 - 1

\* one comparison leaf of _row_matches_where: "T", "F", or "raise" (TypeError)
MatchLeaf(row, cond) ==
    LET actual == Get(row, cond.column)
        expected == cond.value
        T(b) == IF b THEN "T" ELSE "F"
    IN  CASE cond.operator = "=" -> T(PyEq(actual, expected))
          [] cond.operator = "!=" -> T(~PyEq(actual, expected))
          [] cond.operator \in {">", "<", ">=", "<="} /\ ~Comparable(actual, expected)
                -> "raise"
          [] cond.operator = ">" -> T(PyLess(expected, actual))
          [] cond.operator = "<" -> T(PyLess(actual, expected))
          [] cond.operator = ">=" -> T(~PyLess(actual, expected))
          [] cond.operator = "<=" -> T(~PyLess(expected, actual))
          [] OTHER -> "F"

\* all(...) over the AND list from the i-th condition on: stops at the first
\* condition that is false or raises
RECURSIVE MatchFrom(_, _, _)
MatchFrom(row, where, i) ==
    IF i > Len(where) THEN "T"
    ELSE LET m == MatchLeaf(row, where[i])
         IN  IF m = "T" THEN MatchFrom(row, where, i + 1) ELSE m

\* QueryExecutor._row_matches_where; where is the list of conjoined leaves
\* (one leaf when the parser gave a single condition)
row_matches_where(row, where) == MatchFrom(row, where, 1)

\* QueryExecutor._apply_where: [ok, rows]
apply_where(rows, where) ==
    IF \E i \in 1..Len(rows) : row_matches_where(rows[i], where) = "raise"
    THEN [ok |-> FALSE, rows |-> <<>>]
    ELSE [ok |-> TRUE,
          rows |-> SelectSeq(rows, LAMBDA row : row_matches_where(row, where) = "T")]

\* the qualified names table.column the model can take apart at the dot
QualTables == {"t", "u"}
QualColumns == {"id", "name", "zz"}
IsQualified(col_ref) == \E a \in QualTables, c \in QualColumns : col_ref = a \o "." \o c
ColumnPart(col_ref) ==
    CHOOSE c \in QualColumns : \E a \in QualTables : col_ref = a \o "." \o c

\* QueryExecutor._extract_join_value
extract_join_value(row, col_ref) ==
    IF IsQualified(col_ref) THEN Get(row, ColumnPart(col_ref)) ELSE Get(row, col_ref)

\* the combined row of _apply_join
Combined(left_row, right_row, left_table, right_table) ==
    LET lk == {left_table \o "." \o c : c \in DOMAIN left_row}
        rk == {right_table \o "." \o c : c \in DOMAIN right_row}
    IN  [key \in lk \cup rk |->
            IF key \in rk
            THEN right_row[CHOOSE c \in DOMAIN right_row : key = right_table \o "." \o c]
            ELSE left_row[CHOOSE c \in DOMAIN left_row : key = left_table \o "." \o c]]

\* the concatenation of a list of lists
RECURSIVE Flatten(_)
Flatten(lists) ==
    IF lists = <<>> THEN <<>> ELSE Head(lists) \o Flatten(Tail(lists))

\* QueryExecutor._apply_join, given the rows of the right-hand table
apply_join(left_rows, right_rows, join_info, left_table) ==
    LET matches(l, r) ==
            \A i \in 1..Len(join_info.conditions) :
                PyEq(extract_join_value(l, join_info.conditions[i].left),
                     extract_join_value(r, join_info.conditions[i].right))
        pick(l) == SelectSeq(right_rows, LAMBDA r : matches(l, r))
    IN  Flatten([i \in 1..Len(left_rows) |->
            [j \in 1..Len(pick(left_rows[i])) |->
                Combined(left_rows[i], pick(left_rows[i])[j], left_table,
                         join_info.table)]])

\* the projection of _execute_select
Project(rows, columns) ==
    IF columns = <<"*">> THEN rows
    ELSE [i \in 1..Len(rows) |->
             [c \in {columns[j] : j \in 1..Len(columns)} |-> Get(rows[i], c)]]

\* the rows in ascending order of their keys, ties in their prior order
StableSort(rows, keys) ==
    LET n == Len(rows)
        before(j, i) == PyLess(keys[j], keys[i]) \/ (~PyLess(keys[i], keys[j]) /\ j < i)
        pos(i) == 1 + Cardinality({j \in 1..n : j # i /\ before(j, i)})
    IN  [p \in 1..n |-> rows[CHOOSE i \in 1..n : pos(i) = p]]

\* result_rows.sort(key=lambda x: x.get(order_by, '')) inside try/except: list.sort
\* on fewer than 64 items finds the run the list starts with, then inserts the
\* others one by one; a comparison that raises ends it where it stands
SortRows(rows, order_by) ==
    LET n == Len(rows)
        keys == [i \in 1..n |-> IF order_by \in DOMAIN rows[i] THEN rows[i][order_by]
                                ELSE StrV("")]
        odd == {i \in 2..n : ~Comparable(keys[i], keys[1])}
        b == CHOOSE i \in odd : \A j \in odd : i <= j
        desc == PyLess(keys[2], keys[1])
        inRun(i) == \A j \in 3..i : PyLess(keys[j], keys[j - 1]) = desc
        sortedPrefix == StableSort(SubSeq(rows, 1, b - 1), SubSeq(keys, 1, b - 1))
    IN  IF n < 2 THEN rows
        ELSE IF odd = {} THEN StableSort(rows, keys)
        ELSE IF b = 2 \/ inRun(b - 1) THEN rows
        ELSE sortedPrefix \o SubSeq(rows, b, n)

\* result_rows[:limit]
Truncate(rows, limit) ==
    IF limit >= Len(rows) THEN rows ELSE SubSeq(rows, 1, limit)

\* a get_all_rows that hands out the stored list itself
get_all_rows_stored(S, table_name) ==
    [rows |-> S.tables[table_name], stored |-> TRUE]

\* the list object get_all_rows returns: `self.tables[table_name].copy()` is a
\* new list of the same rows, not the list the Row Store holds
get_all_rows_list(S, table_name) ==
    [rows |-> S.tables[table_name], stored |-> FALSE]

\* QueryExecutor._execute_select.  result_rows.sort works in place: it sorts
\* the list get_all_rows returned when no WHERE, JOIN or projection has put a
\* new list in its place.
execute_select(S, parsed) ==
    LET table_name == parsed.table
        schema == S.schemas[table_name]
        rows == get_all_rows(S, table_name)
        sorts_stored == /\ get_all_rows_list(S, table_name).stored
                        /\ parsed.where = NoWhere /\ parsed.join = NoJoin
                        /\ parsed.columns = <<"*">> /\ parsed.order_by # NoOrder
        filtered == IF parsed.where # NoWhere THEN apply_where(rows, parsed.where)
                    ELSE [ok |-> TRUE, rows |-> rows]
        joined == IF parsed.join # NoJoin
                  THEN apply_join(filtered.rows, get_all_rows(S, parsed.join.table),
                                  parsed.join, table_name)
                  ELSE filtered.rows
        projected == Project(joined, parsed.columns)
        ordered == IF parsed.order_by # NoOrder THEN SortRows(projected, parsed.order_by)
                   ELSE projected
        \* `if parsed['limit']`: None and 0 are both false
        result_rows == IF parsed.limit # NoLimit /\ parsed.limit # 0
                       THEN Truncate(ordered, parsed.limit)
                       ELSE ordered
    IN  IF table_name \notin DOMAIN S.schemas
        THEN Done(S, Envelope(FALSE, "Table does not exist"))
        ELSE IF ~table_exists(S, table_name)
        THEN Done(S, Raise("Table does not exist"))
        ELSE IF ~filtered.ok THEN Done(S, Raise("TypeError"))
        ELSE IF parsed.join # NoJoin /\ ~table_exists(S, parsed.join.table)
        THEN Done(S, Raise("Table does not exist"))
        ELSE Done(IF sorts_stored THEN [S EXCEPT !.tables[table_name] = ordered] ELSE S,
                  [success |-> TRUE,
                      message |-> "Found " \o StrOfNat(Len(result_rows)) \o " row(s)",
                      data |-> result_rows,
                      columns |-> IF parsed.columns # <<"*">> THEN parsed.columns
                                  ELSE get_column_names(schema),
                      raised |-> FALSE])

\* an assignment loop that assigns nothing
AssignNothing(row, updates) == row

\* `for col, val in parsed['updates'].items(): row[col] = val`
Assign(row, updates) ==
    [c \in DOMAIN row \cup DOMAIN updates |->
        IF c \in DOMAIN updates THEN updates[c] ELSE row[c]]

\* the loop of _execute_update from the i-th row on.  rows is the list that
\* get_all_rows returned and stored is the list the Row Store holds: the two
\* lists hold the same row objects, so `row[col] = val` changes the row in
\* stored, while `rows[i] = ...` changes rows only.
RECURSIVE UpdateLoop(_, _, _, _, _, _)
UpdateLoop(schema, parsed, stored, rows, i, updated_count) ==
    IF i > Len(rows)
    THEN [ok |-> TRUE, stored |-> stored, rows |-> rows, count |-> updated_count,
          message |-> "", raised |-> FALSE]
    ELSE LET m == IF parsed.where = NoWhere THEN "T"
                  ELSE row_matches_where(rows[i], parsed.where)
             assigned == Assign(rows[i], parsed.updates)
             touched == [stored EXCEPT ![i] = assigned]
             v == validate_row(schema, assigned)
         IN  IF m = "raise"
             THEN [ok |-> FALSE, stored |-> stored, rows |-> rows,
                   count |-> updated_count, message |-> "TypeError", raised |-> TRUE]
             ELSE IF m = "F"
             THEN UpdateLoop(schema, parsed, stored, rows, i + 1, updated_count)
             ELSE IF ~v.ok
             THEN [ok |-> FALSE, stored |-> touched, rows |-> rows,
                   count |-> updated_count,
                   message |-> "Validation error: " \o v.msg, raised |-> FALSE]
             ELSE UpdateLoop(schema, parsed, touched, [rows EXCEPT ![i] = v.row],
                             i + 1, updated_count + 1)

\* QueryExecutor._execute_update
execute_update(S, parsed) ==
    LET table_name == parsed.table
        schema == S.schemas[table_name]
        rows == get_all_rows(S, table_name)
        loop == UpdateLoop(schema, parsed, S.tables[table_name], rows, 1, 0)
        S1 == update_rows(S, table_name, loop.rows)
        rb == rebuild_indexes(S1.indexes, table_name, loop.rows)
    IN  IF table_name \notin DOMAIN S.schemas
        THEN Done(S, Envelope(FALSE, "Table does not exist"))
        ELSE IF ~table_exists(S, table_name)
        THEN Done(S, Raise("Table does not exist"))
        ELSE IF ~loop.ok
        THEN Done([S EXCEPT !.tables[table_name] = loop.stored],
                  IF loop.raised THEN Raise(loop.message)
                  ELSE Envelope(FALSE, loop.message))
        ELSE IF ~rb.ok THEN Done([S1 EXCEPT !.indexes = rb.indexes], Raise(rb.msg))
        ELSE Done([S1 EXCEPT !.indexes = rb.indexes],
                  Envelope(TRUE, "Updated " \o StrOfNat(loop.count) \o " row(s)"))

\* QueryExecutor._execute_delete
execute_delete(S, parsed) ==
    LET table_name == parsed.table
        all == get_all_rows(S, table_name)
        raises == /\ parsed.where # NoWhere
                  /\ \E i \in 1..Len(all) :
                         row_matches_where(all[i], parsed.where) = "raise"
        rows == IF parsed.where # NoWhere
                THEN SelectSeq(all, LAMBDA row : row_matches_where(row, parsed.where) # "T")
                ELSE <<>>
        deleted_count == Len(all) - Len(rows)
        S1 == update_rows(S, table_name, rows)
        rb == rebuild_indexes(S1.indexes, table_name, rows)
    IN  IF table_name \notin DOMAIN S.schemas
        THEN Done(S, Envelope(FALSE, "Table does not exist"))
        ELSE IF ~table_exists(S, table_name)
        THEN Done(S, Raise("Table does not exist"))
        ELSE IF raises THEN Done(S, Raise("TypeError"))
        ELSE IF ~rb.ok THEN Done([S1 EXCEPT !.indexes = rb.indexes], Raise(rb.msg))
        ELSE Done([S1 EXCEPT !.indexes = rb.indexes],
                  Envelope(TRUE, "Deleted " \o StrOfNat(deleted_count) \o " row(s)"))

\* the if/elif chain of execute; order is the order in which CREATE TABLE
\* finds the set of unique constraints enumerated
Dispatch(S, parsed, order) ==
    CASE parsed.command = "CREATE_TABLE" -> execute_create_table(S, parsed, order)
      [] parsed.command = "DROP_TABLE" -> execute_drop_table(S, parsed)
      [] parsed.command = "INSERT" -> execute_insert(S, parsed)
      [] parsed.command = "SELECT" -> execute_select(S, parsed)
      [] parsed.command = "UPDATE" -> execute_update(S, parsed)
      [] parsed.command = "DELETE" -> execute_delete(S, parsed)
      [] OTHER -> Done(S, Envelope(FALSE, "Unknown command"))

\* an execute without its try/except
execute_uncaught(S, parsed, order) == Dispatch(S, parsed, order)

\* QueryExecutor.execute: what the handler returns, or the envelope made of
\* the exception that left it
execute(S, parsed, order) ==
    CHOOSE out \in {IF r.result.raised THEN Done(r.S, Caught(r.result.message)) ELSE r :
                       r \in {Dispatch(S, parsed, order)}} : TRUE

(***************************************************************************)
(* The commands the model feeds to the executor.                           *)
(***************************************************************************)
ColInfo(name, type, max_length, nullable) ==
    [name |-> name, type |-> type, max_length |-> max_length, nullable |-> nullable]
CreateCmd(table, columns, primary_key, unique_columns) ==
    [command |-> "CREATE_TABLE", table |-> table, columns |-> columns,
     primary_key |-> primary_key, unique_columns |-> unique_columns]
DropCmd(table) == [command |-> "DROP_TABLE", table |-> table]
InsertCmd(table, columns, values) ==
    [command |-> "INSERT", table |-> table, columns |-> columns, values |-> values]
SelectCmd(table, columns, where, join, order_by, limit) ==
    [command |-> "SELECT", table |-> table, columns |-> columns, where |-> where,
     join |-> join, order_by |-> order_by, limit |-> limit]
UpdateCmd(table, updates, where) ==
    [command |-> "UPDATE", table |-> table, updates |-> updates, where |-> where]
DeleteCmd(table, where) == [command |-> "DELETE", table |-> table, where |-> where]
Cond(column, operator, value) ==
    [column |-> column, operator |-> operator, value |-> value]

TableNames == {"t"}

\* CREATE TABLE t (id INTEGER PRIMARY KEY NOT NULL, name VARCHAR(2) UNIQUE)
UsersColumns ==
    <<ColInfo("id", "INTEGER", NoLength, FALSE), ColInfo("name", "VARCHAR", 2, TRUE)>>

CreateCmds ==
    {CreateCmd(table, UsersColumns, "id", <<"name">>) : table \in TableNames}
    \* a primary key that is not a column
    \cup {CreateCmd(table, UsersColumns, "zz", <<>>) : table \in TableNames}

DropCmds == {DropCmd(table) : table \in TableNames}

\* the values INSERT offers for id and for name
IdInputs == {IntV(i) : i \in 1..MaxInt} \cup {StrV("1")}
NameInputs == {Null, StrV("a"), StrV("abc")}

InsertCmds ==
    {InsertCmd(table, <<>>, <<a, b>>) :
        table \in TableNames, a \in IdInputs, b \in NameInputs}
    \cup {InsertCmd(table, <<"id">>, <<IntV(1)>>) : table \in TableNames}
    \cup {InsertCmd(table, <<>>, <<IntV(1)>>) : table \in TableNames}
    \cup {InsertCmd(table, <<"id", "zz">>, <<IntV(1), IntV(1)>>) : table \in TableNames}

AndWhere == <<Cond("id", ">=", IntV(1)), Cond("name", "!=", StrV("a"))>>
Wheres == {NoWhere, <<Cond("id", "=", IntV(1))>>, <<Cond("name", "<", StrV("b"))>>}

Updates ==
    {[id |-> IntV(1)], [id |-> StrV("2")], [id |-> Null], [name |-> StrV("a")],
     [name |-> Null]}
UpdateCmds ==
    {UpdateCmd(table, updates, where) :
        table \in TableNames, updates \in Updates, where \in Wheres}

DeleteCmds ==
    {DeleteCmd(table, where) : table \in TableNames, where \in Wheres \cup {AndWhere}}

SelfJoin == [table |-> "t", conditions |-> <<[left |-> "t.id", right |-> "id"]>>]
SelectCmds ==
    {SelectCmd(table, <<"*">>, NoWhere, NoJoin, NoOrder, NoLimit) : table \in TableNames}
    \cup {SelectCmd(table, <<"name">>, AndWhere, NoJoin, "name", 1) : table \in TableNames}
    \cup {SelectCmd(table, <<"*">>, NoWhere, SelfJoin, NoOrder, NoLimit) :
        table \in TableNames}

\* the orders in which a set can be enumerated
Orders(set) ==
    {order \in [1..Cardinality(set) -> set] :
        \A i, j \in 1..Cardinality(set) : i # j => order[i] # order[j]}
UniqueSet(parsed) == {parsed.unique_columns[i] : i \in 1..Len(parsed.unique_columns)}

(***************************************************************************)
(* The engine as a state machine: one step per command.                    *)
(***************************************************************************)
VARIABLES
    schemas,    \* SchemaManager.schemas
    tables,     \* StorageEngine.tables
    indexes,    \* IndexManager.indexes
    data_file,  \* StorageEngine.data_file is set
    disk,       \* the file at data_file
    dropped,    \* tables dropped with success and not created with success since
    last,       \* the command of the last step, when it was a CREATE TABLE,
                \* DROP TABLE or INSERT that returned success, else NoCmd
    api         \* the requests in flight at the API server, NoApi without one

vars == <<schemas, tables, indexes, data_file, disk, dropped, last, api>>

NoCmd == [command |-> "NONE"]
\* the engine is driven directly, not through the API server
NoApi == [slots |-> <<>>, serial |-> <<>>]

\* the engine state the executor works on
Cur ==
    [schemas |-> schemas, tables |-> tables, indexes |-> indexes,
     data_file |-> data_file, disk |-> disk]

\* REPL(data_file) or the module-level construction of api/main.py, on a
\* machine that has no snapshot file yet
Init ==
    /\ data_file \in BOOLEAN
    /\ disk = NoFile
    /\ schemas = NewEngine(data_file, disk).schemas
    /\ tables = NewEngine(data_file, disk).tables
    /\ indexes = NewEngine(data_file, disk).indexes
    /\ dropped = {}
    /\ last = NoCmd
    /\ api = NoApi

\* executor.execute(parsed)
Step(parsed, order) ==
    \E r \in {execute(Cur, parsed, order)} :
        /\ schemas' = r.S.schemas
        /\ tables' = r.S.tables
        /\ indexes' = r.S.indexes
        /\ disk' = r.S.disk
        /\ data_file' = data_file
        /\ api' = api
        /\ dropped' =
              IF parsed.command = "DROP_TABLE" /\ r.result.success
              THEN dropped \cup {parsed.table}
              ELSE IF parsed.command = "CREATE_TABLE" /\ r.result.success
              THEN dropped \ {parsed.table}
              ELSE dropped
        /\ last' =
              IF r.result.success
                 /\ parsed.command \in {"CREATE_TABLE", "DROP_TABLE", "INSERT"}
              THEN parsed
              ELSE NoCmd

CreateTable == \E parsed \in CreateCmds : \E order \in Orders(UniqueSet(parsed)) :
    Step(parsed, order)
DropTable == \E parsed \in DropCmds : Step(parsed, <<>>)
Insert == \E parsed \in InsertCmds :
    /\ parsed.table \in DOMAIN tables => Len(tables[parsed.table]) < MaxRows
    /\ Step(parsed, <<>>)
Select == \E parsed \in SelectCmds : Step(parsed, <<>>)
Update == \E parsed \in UpdateCmds : Step(parsed, <<>>)
Delete == \E parsed \in DeleteCmds : Step(parsed, <<>>)

\* the process ends and a new one is started on the same storage location
Restart ==
    \E S \in {NewEngine(data_file, disk)} :
        /\ schemas' = S.schemas
        /\ tables' = S.tables
        /\ indexes' = S.indexes
        /\ last' = NoCmd
        /\ UNCHANGED <<data_file, disk, dropped, api>>

Next ==
    \/ CreateTable
    \/ DropTable
    \/ Insert
    \/ Select
    \/ Update
    \/ Delete
    \/ Restart

Spec == Init /\ [][Next]_vars

(***************************************************************************)
(* Properties.                                                             *)
(***************************************************************************)
\* the tables that have both a schema and a row sequence
LiveTables == DOMAIN schemas \cap DOMAIN tables

\* the primary key and the unique-constraint columns of a schema
UniqueColumns(schema) ==
    schema.unique_constraints
        \cup (IF schema.primary_key # NoPK THEN {schema.primary_key} ELSE {})

\* two different rows of the table hold the same non-null value in the column
HasDuplicate(rows, column_name) ==
    \E i, j \in 1..Len(rows) :
        /\ i # j
        /\ Get(rows[i], column_name).k # "null"
        /\ PyEq(Get(rows[i], column_name), Get(rows[j], column_name))

\* SELECT * FROM table
SelectAll(table) == SelectCmd(table, <<"*">>, NoWhere, NoJoin, NoOrder, NoLimit)

\* the row an INSERT hands to validate_row
InsertInput(schema, parsed) ==
    IF parsed.columns # <<>> THEN ZipDict(parsed.columns, parsed.values)
    ELSE ZipDict(get_column_names(schema), parsed.values)
\* the INSERT gets as far as validate_row
CountsMatch(schema, parsed) ==
    IF parsed.columns # <<>> THEN Len(parsed.columns) = Len(parsed.values)
    ELSE Len(parsed.values) = Len(schema.columns)

\* C1: for every table and every primary-key or unique-constraint column, no
\* two rows of the table's row sequence hold the same non-null value in that
\* column, whatever commands were run.
C1_UniqueValues ==
    \A table \in LiveTables :
        \A column_name \in UniqueColumns(schemas[table]) :
            ~HasDuplicate(tables[table], column_name)

\* C2: an INSERT whose validated row has a non-null value that the table
\* already holds in the primary key or a unique-constraint column returns
\* success=false and leaves the row sequence and every index as they were.
C2_DuplicateInsertRejected ==
    \A parsed \in InsertCmds :
        parsed.table \in LiveTables /\ CountsMatch(schemas[parsed.table], parsed) =>
            LET schema == schemas[parsed.table]
                v == validate_row(schema, InsertInput(schema, parsed))
                r == execute_insert(Cur, parsed)
            IN  (/\ v.ok
                 /\ \E column_name \in UniqueColumns(schema) :
                        /\ v.row[column_name].k # "null"
                        /\ \E i \in 1..Len(tables[parsed.table]) :
                               PyEq(Get(tables[parsed.table][i], column_name),
                                    v.row[column_name]))
                => /\ ~r.result.success
                   /\ r.S.tables = tables
                   /\ r.S.indexes = indexes

\* C3: in every reachable state, also right after startup from a snapshot
\* file and after a failed CREATE TABLE or DROP TABLE, the table names of the
\* Schema Catalog are the table names of the Row Store.
C3_CatalogMatchesRowStore == DOMAIN schemas = DOMAIN tables

\* the index maps exactly the non-null values of its column to the positions
\* of the rows that hold them
IndexMatchesRows(index, rows) ==
    /\ \A key \in DOMAIN index.index_map :
           \A k \in 1..Len(index.index_map[key]) :
               LET p == index.index_map[key][k]
               IN  /\ p \in 0..(Len(rows) - 1)
                   /\ Get(rows[p + 1], index.column_name).k # "null"
                   /\ PyEq(Get(rows[p + 1], index.column_name), key)
    /\ \A p \in 0..(Len(rows) - 1) :
           Get(rows[p + 1], index.column_name).k # "null" =>
               \E k \in 1..Len(lookup(index, Get(rows[p + 1], index.column_name))) :
                   lookup(index, Get(rows[p + 1], index.column_name))[k] = p

\* C4: after every command, successful or failed, each index of a table is
\* the index recomputed from the table's current rows: a value maps to
\* position p exactly when the row at p holds that non-null value.
C4_IndexesMatchRows ==
    \A table \in DOMAIN indexes \cap DOMAIN tables :
        \A i \in 1..Len(indexes[table]) :
            IndexMatchesRows(indexes[table][i], tables[table])

\* the messages of an UPDATE that stopped at a row that failed validation
ValidationErrors ==
    {"Validation error: " \o msg :
        msg \in {"cannot be NULL", "Cannot convert to INTEGER", "Cannot convert to FLOAT",
                 "exceeds max length", "Cannot convert to BOOLEAN",
                 "Missing required column", "Unknown column"}}

\* C5: when an UPDATE aborts because a matched row fails re-validation, the
\* table's rows are exactly the rows before the UPDATE, and a following
\* SELECT * returns them.
C5_AbortedUpdateKeepsRows ==
    \A parsed \in UpdateCmds :
        LET r == execute_update(Cur, parsed)
        IN  ~r.result.success /\ r.result.message \in ValidationErrors =>
                /\ r.S.tables = tables
                /\ execute_select(r.S, SelectAll(parsed.table)).result.data
                       = tables[parsed.table]

\* the tables the snapshot file holds; none when there is no file
Persisted == IF disk.exists THEN JsonLoad(disk.doc) ELSE <<>>

\* C6: with a storage location configured, after every command, successful
\* or failed, the persisted snapshot equals the in-memory tables.
C6_SnapshotMatchesMemory == data_file => Persisted = tables

\* the row has exactly the schema's columns, no null in a non-nullable
\* column, and every value is what the column's coercion makes of it
RowConforms(schema, row) ==
    /\ DOMAIN row = ColumnNameSet(schema)
    /\ \A i \in 1..Len(schema.columns) :
           LET column == schema.columns[i]
               value == Get(row, column.name)
           IN  /\ value.k = "null" => column.nullable
               /\ value.k # "null" => validate_value(column, value) = Ok(value)

\* C7: after any sequence of commands every row the Row Store holds for a
\* table has one entry per schema column and no other key, a non-null value
\* in every non-nullable column, and values of the column's declared type.
C7_RowsConformToSchema ==
    \A table \in LiveTables :
        \A i \in 1..Len(tables[table]) : RowConforms(schemas[table], tables[table][i])

\* the commands that read or change the rows of a table
RowCmds == InsertCmds \cup SelectCmds \cup UpdateCmds \cup DeleteCmds

\* C8: right after a successful CREATE TABLE t a SELECT on t succeeds and
\* returns zero rows; after a successful DROP TABLE t every SELECT, INSERT,
\* UPDATE and DELETE on t returns success=false with the unknown-table
\* message, until a CREATE TABLE t succeeds again.
C8_CreateThenEmptyDropThenUnknown ==
    /\ last.command = "CREATE_TABLE" =>
           LET q == execute_select(Cur, SelectAll(last.table)).result
           IN  q.success /\ q.data = <<>>
    /\ \A parsed \in RowCmds :
           parsed.table \in dropped =>
               LET q == execute(Cur, parsed, <<>>).result
               IN  ~q.success /\ q.message = "Table does not exist"

\* a DROP TABLE has just succeeded on a table that a CREATE TABLE had made,
\* with a storage location configured
C8_Witness ==
    /\ last.command = "DROP_TABLE"
    /\ last.table \in dropped
    /\ last.table \notin DOMAIN schemas \cup DOMAIN tables
    /\ data_file /\ disk.exists

\* what the coercion rules make of a literal: an INTEGER column holds the
\* integer a number or a numeral denotes, a VARCHAR column the text form
Coerced(column, value) ==
    IF value.k = "null" THEN Null
    ELSE IF column.data_type = "INTEGER"
    THEN IntV(IF value.k = "str" THEN IntOfStr(value.s) ELSE value.n)
    ELSE StrV(IF value.k = "str" THEN value.s ELSE StrOfInt(value.n))

\* C9: after a successful INSERT into t, SELECT * FROM t returns the inserted
\* row as its last row, holding for every schema column the coerced value of
\* the inserted literal, and null for a column the INSERT left out.
C9_InsertThenSelectRoundTrips ==
    last.command = "INSERT" =>
        LET schema == schemas[last.table]
            input == InsertInput(schema, last)
            q == execute_select(Cur, SelectAll(last.table)).result
        IN  /\ q.success
            /\ q.data # <<>>
            /\ q.data[Len(q.data)] =
                   [c \in ColumnNameSet(schema) |->
                       IF c \in DOMAIN input THEN Coerced(get_column(schema, c), input[c])
                       ELSE Null]

\* an INSERT of a numeral into the INTEGER column has just succeeded on a
\* table that already held a row
C9_Witness ==
    /\ last.command = "INSERT"
    /\ last.values[1] = StrV("1")
    /\ Len(tables[last.table]) >= 2

\* the SELECT commands with a LIMIT, over every filter of the model
LimitCmds ==
    {SelectCmd(table, columns, where, NoJoin, order_by, limit) :
        table \in TableNames, columns \in {<<"*">>, <<"name">>},
        where \in Wheres \cup {AndWhere}, order_by \in {NoOrder, "name"},
        limit \in 0..(MaxRows + 1)}

\* C10: a SELECT with LIMIT N returns at most N rows, the first N rows of
\* the filtered, projected and ordered result, for every N >= 0.
C10_LimitTruncates ==
    \A parsed \in LimitCmds :
        LET q == execute_select(Cur, parsed).result
            full == execute_select(Cur, [parsed EXCEPT !.limit = NoLimit]).result
        IN  q.success =>
                /\ Len(q.data) <= parsed.limit
                /\ q.data = SubSeq(full.data, 1, Len(q.data))
                /\ Len(q.data) = parsed.limit \/ Len(q.data) = Len(full.data)

(***************************************************************************)
(* Queries on a table of up to MaxQueryRows rows: the engine after a       *)
(* CREATE TABLE and a run of successful INSERTs, then SELECTs only.        *)
(***************************************************************************)
\* most rows of a queried table
MaxQueryRows == 4

\* the names a queried row may hold
QueryNames == {Null, StrV("a"), StrV("ab"), StrV("b")}

\* the value lists of the INSERTs that fill a queried table: ids 1..n in
\* ascending or descending order, names null or pairwise different
QueryInputs ==
    UNION {
        {[i \in 1..n |-> <<IntV(IF up THEN i ELSE n + 1 - i), names[i]>>] :
            up \in BOOLEAN,
            names \in {f \in [1..n -> QueryNames] :
                          \A i, j \in 1..n : i # j /\ f[i] # Null => f[i] # f[j]}} :
        n \in 0..MaxQueryRows}

\* most rows of the table a query joins to
MaxJoinRows == 2

\* the value lists of the INSERTs that fill the joined table u
JoinInputs ==
    UNION {
        {[i \in 1..n |-> <<IntV(i), names[i]>>] :
            names \in {f \in [1..n -> {Null, StrV("a")}] :
                          \A i, j \in 1..n : i # j /\ f[i] # Null => f[i] # f[j]}} :
        n \in 0..MaxJoinRows}

\* the engine after INSERT INTO table VALUES inputs[i], for i from i on
RECURSIVE InsertAll(_, _, _, _)
InsertAll(S, table, inputs, i) ==
    IF i > Len(inputs) THEN S
    ELSE InsertAll(execute_insert(S, InsertCmd(table, <<>>, inputs[i])).S,
                   table, inputs, i + 1)

\* the engine after CREATE TABLE table and the INSERTs of inputs
Filled(S, table, inputs) ==
    InsertAll(execute_create_table(S, CreateCmd(table, UsersColumns, "id", <<"name">>),
                                   <<"name">>).S,
              table, inputs, 1)

QueryInit ==
    \E inputs \in QueryInputs, joined \in JoinInputs :
        \E S \in {Filled(Filled(NewEngine(FALSE, NoFile), "t", inputs), "u", joined)} :
            /\ schemas = S.schemas
            /\ tables = S.tables
            /\ indexes = S.indexes
            /\ data_file = FALSE
            /\ disk = NoFile
            /\ dropped = {}
            /\ last = NoCmd
            /\ api = NoApi

\* SELECT ... ORDER BY on a column of the table, on a column it does not have
\* and on a column the projection left out
OrderCmds ==
    {SelectCmd("t", columns, NoWhere, NoJoin, order_by, NoLimit) :
        columns \in {<<"*">>, <<"name">>}, order_by \in {"id", "name", "zz"}}

\* one equality of a JOIN: left_table.left_column = right_table.right_column
JoinOn(left_table, pair, right_table) ==
    [left |-> left_table \o "." \o pair[1], right |-> right_table \o "." \o pair[2]]

\* the lists of column pairs the JOINs of the model equate
JoinPairs == {<<<<"id", "id">>>>, <<<<"name", "name">>>>, <<<<"id", "id">>, <<"name", "name">>>>}

\* SELECT * FROM t JOIN right_table ON ..., one equality per column pair
JoinCmd(right_table, pairs) ==
    SelectCmd("t", <<"*">>, NoWhere,
              [table |-> right_table,
               conditions |-> [k \in 1..Len(pairs) |-> JoinOn("t", pairs[k], right_table)]],
              NoOrder, NoLimit)

JoinCmds == {JoinCmd(right_table, pairs) : right_table \in {"t", "u"}, pairs \in JoinPairs}

QueryCmds == OrderCmds \cup JoinCmds

Query == \E parsed \in QueryCmds : Step(parsed, <<>>)

QueryNext == Query

QuerySpec == QueryInit /\ [][QueryNext]_vars

\* the sort key of a result row: its value in the column, '' when it has none
OrderKey(row, order_by) ==
    IF order_by \in DOMAIN row THEN row[order_by] ELSE StrV("")

\* every two of the rows have keys that Python can order
MutuallyComparable(rows, order_by) ==
    \A i, j \in 1..Len(rows) :
        i # j => Comparable(OrderKey(rows[i], order_by), OrderKey(rows[j], order_by))

\* out holds the rows of in in ascending key order, rows of equal keys in the
\* order they have in in
AscendingStable(out, in, order_by) ==
    /\ Len(out) = Len(in)
    /\ \E sigma \in Orders(1..Len(in)) :
           /\ \A p \in 1..Len(in) : out[p] = in[sigma[p]]
           /\ \A p, q \in 1..Len(in) :
                  p < q =>
                      /\ ~PyLess(OrderKey(out[q], order_by), OrderKey(out[p], order_by))
                      /\ ~PyLess(OrderKey(out[p], order_by), OrderKey(out[q], order_by))
                             => sigma[p] < sigma[q]

\* C11: a SELECT with ORDER BY returns success=true; rows whose keys are
\* mutually comparable come back ascending with ties in their prior order,
\* and when the keys are heterogeneous or the column is absent the rows come
\* back in the order they had before the sort.
C11_OrderBySortsOrKeepsOrder ==
    \A parsed \in OrderCmds :
        parsed.table \in LiveTables =>
            LET q == execute_select(Cur, parsed).result
                unsorted == execute_select(Cur, [parsed EXCEPT !.order_by = NoOrder])
                                .result.data
            IN  /\ q.success
                /\ IF MutuallyComparable(unsorted, parsed.order_by)
                   THEN AscendingStable(q.data, unsorted, parsed.order_by)
                   ELSE q.data = unsorted

\* every comparison of the conjunction holds for the row
AllLeavesHold(row, where) ==
    \A i \in 1..Len(where) : MatchLeaf(row, where[i]) = "T"

\* the rows a DELETE with this WHERE has to leave
RowsToKeep(rows, where) ==
    IF where = NoWhere THEN <<>>
    ELSE SelectSeq(rows, LAMBDA row : ~AllLeavesHold(row, where))

\* C12: a successful DELETE leaves exactly the rows that did not match WHERE,
\* in their original order, and none when WHERE is absent; the row count
\* after is the count before minus the deleted count it reports.
C12_DeleteKeepsNonMatching ==
    \A parsed \in DeleteCmds :
        LET r == execute_delete(Cur, parsed)
            before == tables[parsed.table]
            after == r.S.tables[parsed.table]
        IN  r.result.success =>
                /\ after = RowsToKeep(before, parsed.where)
                /\ parsed.where = NoWhere => after = <<>>
                /\ r.result.message =
                       "Deleted " \o StrOfNat(Len(before) - Len(after)) \o " row(s)"

\* a DELETE with a WHERE succeeds on a table of two rows and leaves one
C12_Witness ==
    \E parsed \in DeleteCmds :
        /\ parsed.where # NoWhere
        /\ parsed.table \in LiveTables
        /\ Len(tables[parsed.table]) = 2
        /\ execute_delete(Cur, parsed).result.success
        /\ Len(execute_delete(Cur, parsed).S.tables[parsed.table]) = 1

\* the row an UPDATE has to make of a row it applies to: the coerced SET
\* value in every assigned column, the row's own value in the others
UpdatedRow(schema, row, updates) ==
    [c \in ColumnNameSet(schema) |->
        Coerced(get_column(schema, c), IF c \in DOMAIN updates THEN updates[c] ELSE row[c])]

\* C13: a successful UPDATE applies the SET assignments to every row when
\* WHERE is absent and to exactly the matching rows when it is present; the
\* other rows are unchanged, and so are the number and order of the rows.
C13_UpdateTouchesOnlyMatching ==
    \A parsed \in UpdateCmds :
        LET r == execute_update(Cur, parsed)
            before == tables[parsed.table]
            after == r.S.tables[parsed.table]
        IN  r.result.success =>
                /\ Len(after) = Len(before)
                /\ \A i \in 1..Len(before) :
                       after[i] =
                           IF parsed.where = NoWhere \/ AllLeavesHold(before[i], parsed.where)
                           THEN UpdatedRow(schemas[parsed.table], before[i], parsed.updates)
                           ELSE before[i]

\* an UPDATE with a WHERE succeeds on a table of two rows, changes the one
\* that matches and leaves the other
C13_Witness ==
    \E parsed \in UpdateCmds :
        /\ parsed.where # NoWhere
        /\ parsed.table \in LiveTables
        /\ Len(tables[parsed.table]) = 2
        /\ execute_update(Cur, parsed).result.success
        /\ \E i, j \in 1..2 :
               /\ execute_update(Cur, parsed).S.tables[parsed.table][i]
                      # tables[parsed.table][i]
               /\ execute_update(Cur, parsed).S.tables[parsed.table][j]
                      = tables[parsed.table][j]
               /\ ~AllLeavesHold(tables[parsed.table][j], parsed.where)

\* SELECT * FROM table WHERE ..., for every condition tree of the model
WhereCmds ==
    {SelectCmd(table, <<"*">>, where, NoJoin, NoOrder, NoLimit) :
        table \in TableNames, where \in (Wheres \ {NoWhere}) \cup {AndWhere}}

\* the WHERE is one equality comparison on the primary key of the schema
IsKeyLookup(schema, where) ==
    /\ Len(where) = 1
    /\ where[1].operator = "="
    /\ schema.primary_key # NoPK
    /\ where[1].column = schema.primary_key

\* C14: a SELECT with a WHERE returns exactly the rows for which every
\* comparison of the conjunction holds, in row-sequence order; with one
\* equality comparison on the primary key it returns exactly the one row
\* that holds the value.
C14_WhereReturnsMatchingRows ==
    \A parsed \in WhereCmds :
        parsed.table \in LiveTables =>
            LET q == execute_select(Cur, parsed).result
                rows == tables[parsed.table]
            IN  /\ q.success
                /\ q.data = SelectSeq(rows, LAMBDA row : AllLeavesHold(row, parsed.where))
                /\ (/\ IsKeyLookup(schemas[parsed.table], parsed.where)
                    /\ \E i \in 1..Len(rows) : AllLeavesHold(rows[i], parsed.where))
                   => Len(q.data) = 1

\* the pairs <<i, j>> of a left and a right row that agree on every column
\* pair, by left row and then by right row
MatchingPairs(left_rows, right_rows, pairs) ==
    Flatten([i \in 1..Len(left_rows) |->
        SelectSeq([j \in 1..Len(right_rows) |-> <<i, j>>],
                  LAMBDA ij : \A k \in 1..Len(pairs) :
                      PyEq(left_rows[ij[1]][pairs[k][1]], right_rows[ij[2]][pairs[k][2]]))])

\* the combined row has a key table.column for every column of the two rows
\* and no other, each with the value the row of that table holds
CombinesPair(combined, left_table, left_row, right_table, right_row) ==
    /\ DOMAIN combined = {left_table \o "." \o c : c \in DOMAIN left_row}
                             \cup {right_table \o "." \o c : c \in DOMAIN right_row}
    /\ \A c \in DOMAIN left_row : combined[left_table \o "." \o c] = left_row[c]
    /\ \A c \in DOMAIN right_row : combined[right_table \o "." \o c] = right_row[c]

\* C15: a SELECT with an equality JOIN returns one combined row for every
\* pair of a left and a right row that satisfies all the join equalities and
\* none for a row without partner; every key of a combined row is
\* table.column and holds the value of the row it comes from.
C15_JoinCombinesMatchingPairs ==
    \A right_table \in {"t", "u"}, pairs \in JoinPairs :
        {"t", right_table} \subseteq LiveTables =>
            LET q == execute_select(Cur, JoinCmd(right_table, pairs)).result
                matching == MatchingPairs(tables["t"], tables[right_table], pairs)
            IN  /\ q.success
                /\ Len(q.data) = Len(matching)
                /\ \A p \in 1..Len(matching) :
                       CombinesPair(q.data[p], "t", tables["t"][matching[p][1]],
                                    right_table, tables[right_table][matching[p][2]])

\* commands that end in an internal fault: a column of a type DataType does
\* not have, a JOIN to a table the Row Store does not hold, an ordering
\* comparison with a null, an UPDATE that gives two rows one key
FaultCmds ==
    {CreateCmd("u", <<ColInfo("id", "TEXT", NoLength, TRUE)>>, NoPK, <<>>),
     JoinCmd("u", <<<<"id", "id">>>>),
     SelectCmd("t", <<"*">>, <<Cond("name", "<", StrV("b"))>>, NoJoin, NoOrder, NoLimit),
     UpdateCmd("t", [id |-> IntV(1)], NoWhere)}

\* every command of the model, and one the executor does not know
AllCmds ==
    CreateCmds \cup DropCmds \cup InsertCmds \cup SelectCmds \cup UpdateCmds
        \cup DeleteCmds \cup WhereCmds \cup OrderCmds \cup LimitCmds \cup FaultCmds
        \cup {[command |-> "VACUUM", table |-> "t"]}

\* the orders CREATE TABLE may find its unique constraints in; none otherwise
OrdersOf(parsed) ==
    IF parsed.command = "CREATE_TABLE" THEN Orders(UniqueSet(parsed)) ELSE {<<>>}

\* C16: every call of execute with a structured command returns an envelope
\* with a boolean success and a string message; no fault inside a handler
\* leaves execute as an exception.
C16_ExecuteAlwaysReturnsEnvelope ==
    \A parsed \in AllCmds : \A order \in OrdersOf(parsed) :
        LET result == execute(Cur, parsed, order).result
        IN  /\ ~result.raised
            /\ result.success \in BOOLEAN
            /\ result.message \in STRING

\* a table in which each of the faulty commands makes its handler raise
C16_Witness ==
    /\ "t" \in LiveTables
    /\ \A parsed \in FaultCmds :
           /\ Dispatch(Cur, parsed, <<>>).result.raised
           /\ ~execute(Cur, parsed, <<>>).result.success

\* C17: DROP TABLE on a table with no schema returns success=false and
\* changes nothing; otherwise it removes the schema, the rows and the indexes
\* of the table; when it has returned, with either outcome, the table has
\* schema and rows or neither, and no index without them.
C17_DropRemovesAllOrNothing ==
    \A parsed \in DropCmds :
        LET r == execute(Cur, parsed, <<>>)
            table_name == parsed.table
        IN  /\ table_name \notin DOMAIN schemas =>
                   ~r.result.success /\ r.S = Cur
            /\ table_name \in DOMAIN schemas =>
                   /\ r.result.success
                   /\ table_name \notin DOMAIN r.S.schemas
            /\ table_name \in DOMAIN r.S.schemas <=> table_name \in DOMAIN r.S.tables
            /\ table_name \in DOMAIN r.S.indexes => table_name \in DOMAIN r.S.schemas

\* the CREATE TABLE commands of the model, and one whose primary key is
\* also listed as a unique column
CreateAgainCmds ==
    CreateCmds \cup {CreateCmd(table, UsersColumns, "id", <<"id", "name">>) :
                        table \in TableNames}

\* C18: CREATE TABLE for a name that has a schema returns success=false and
\* leaves schema, rows and indexes as they are; a successful CREATE TABLE
\* leaves a schema, an empty row sequence and exactly one empty unique index
\* for the primary key and for each unique-constraint column.
C18_CreateFailsOrBuildsEmptyTable ==
    \A parsed \in CreateAgainCmds : \A order \in OrdersOf(parsed) :
        LET r == execute(Cur, parsed, order)
            table_name == parsed.table
            made == r.S.indexes[table_name]
        IN  /\ table_name \in DOMAIN schemas => ~r.result.success /\ r.S = Cur
            /\ r.result.success =>
                   /\ table_name \in DOMAIN r.S.schemas
                   /\ r.S.schemas[table_name].primary_key = parsed.primary_key
                   /\ r.S.schemas[table_name].unique_constraints = UniqueSet(parsed)
                   /\ r.S.tables[table_name] = <<>>
                   /\ table_name \in DOMAIN r.S.indexes
                   /\ {made[i].column_name : i \in 1..Len(made)}
                          = UniqueSet(parsed) \cup {parsed.primary_key}
                   /\ Len(made) = Cardinality(UniqueSet(parsed) \cup {parsed.primary_key})
                   /\ \A i \in 1..Len(made) :
                          made[i].unique /\ made[i].index_map = <<>>

\* a CREATE TABLE has just succeeded and written the snapshot; the table has
\* no rows and its two empty indexes, and the same CREATE TABLE now fails
C18_Witness ==
    /\ last.command = "CREATE_TABLE"
    /\ disk.exists
    /\ tables[last.table] = <<>>
    /\ Len(indexes[last.table]) = 2
    /\ ~execute(Cur, last, <<"name">>).result.success

\* the INSERTs of the model, and more with a column list: the columns in
\* another order than the schema's, and more or fewer values than columns
BindCmds ==
    InsertCmds
        \cup {InsertCmd(table, <<"name", "id">>, <<StrV("1"), IntV(2)>>) :
                 table \in TableNames}
        \cup {InsertCmd(table, <<"id", "name">>, <<IntV(1)>>) : table \in TableNames}
        \cup {InsertCmd(table, <<"id">>, <<IntV(1), StrV("a")>>) : table \in TableNames}
        \cup {InsertCmd(table, <<>>, <<IntV(1), StrV("a"), StrV("b")>>) :
                 table \in TableNames}

\* the row an INSERT has to store: for the k-th name the coerced k-th value,
\* null for a column that is not named
BoundRow(schema, names, values) ==
    [c \in ColumnNameSet(schema) |->
        IF \E k \in 1..Len(names) : names[k] = c
        THEN Coerced(get_column(schema, c),
                     values[CHOOSE k \in 1..Len(names) : names[k] = c])
        ELSE Null]

\* C19: an INSERT without a column list binds the i-th value to the i-th
\* schema column, one with a column list binds by name; either fails when the
\* number of values is not the number of columns it binds, and that failure
\* leaves rows and indexes unchanged.
C19_InsertBindsValuesToColumns ==
    \A parsed \in BindCmds :
        parsed.table \in LiveTables =>
            LET schema == schemas[parsed.table]
                names == IF parsed.columns = <<>> THEN get_column_names(schema)
                         ELSE parsed.columns
                r == execute(Cur, parsed, <<>>)
                stored == r.S.tables[parsed.table]
            IN  /\ Len(parsed.values) # Len(names) =>
                       /\ ~r.result.success
                       /\ r.S.tables = tables
                       /\ r.S.indexes = indexes
                /\ r.result.success =>
                       /\ Len(parsed.values) = Len(names)
                       /\ stored[Len(stored)] = BoundRow(schema, names, parsed.values)

\* an INSERT that names the one column id has just succeeded and stored a
\* null name; an INSERT that names two columns in another order than the
\* schema's would succeed, one with too few values would fail
C19_Witness ==
    /\ last.command = "INSERT"
    /\ last.columns = <<"id">>
    /\ tables[last.table][Len(tables[last.table])] = [id |-> IntV(1), name |-> Null]
    /\ execute(Cur, InsertCmd(last.table, <<"name", "id">>, <<StrV("1"), IntV(2)>>),
               <<>>).result.success
    /\ ~execute(Cur, InsertCmd(last.table, <<>>, <<IntV(1)>>), <<>>).result.success

(***************************************************************************)
(* A caller that holds what get_all_rows or a SELECT * returned and        *)
(* changes it.  self.tables[table_name].copy() is a new list of the same   *)
(* row objects; a row object is named here by its position in the Row      *)
(* Store, so a returned list is a list of positions.                       *)
(***************************************************************************)
\* the row objects in the list get_all_rows returns
ReturnedRefs(S, table_name) == [i \in 1..Len(S.tables[table_name]) |-> i]

\* the row objects in the data of SELECT * FROM table_name [WHERE where]:
\* result_rows is the list get_all_rows returned, or the list _apply_where
\* made of its rows
SelectedRefs(S, table_name, where) ==
    IF where = NoWhere THEN ReturnedRefs(S, table_name)
    ELSE SelectSeq(ReturnedRefs(S, table_name),
                   LAMBDA i : row_matches_where(S.tables[table_name][i], where) = "T")

\* the engine after the caller's rows[k][col] = val on a returned list
AssignReturned(S, table_name, refs, k, col, val) ==
    [S EXCEPT !.tables[table_name][refs[k]][col] = val]

\* the lists a caller may hold for a table
CallerLists(table_name) ==
    {ReturnedRefs(Cur, table_name),
     SelectedRefs(Cur, table_name, NoWhere),
     SelectedRefs(Cur, table_name, <<Cond("id", "=", IntV(1))>>)}

\* the value the caller assigns
CallerValues == {StrV("zz")}

\* rows.append(...) or del rows[k] on a returned list: the list is the
\* caller's own
CallerChangesList ==
    /\ \E table_name \in DOMAIN tables : \E refs \in CallerLists(table_name) :
           \E changed \in {Append(refs, 0)} \cup {Tail(refs) : x \in {1} \cap DOMAIN refs} :
               changed # refs
    /\ UNCHANGED vars

\* rows[k][col] = val on a returned list, once
CallerAssigns ==
    /\ last = NoCmd
    /\ \E table_name \in DOMAIN tables : \E refs \in CallerLists(table_name) :
           \E k \in 1..Len(refs), col \in {"id", "name"}, val \in CallerValues :
               tables' = AssignReturned(Cur, table_name, refs, k, col, val).tables
    /\ last' = [command |-> "CALLER"]
    /\ UNCHANGED <<schemas, indexes, data_file, disk, dropped, api>>

CallerNext ==
    \/ CallerChangesList
    \/ CallerAssigns

CallerSpec == QueryInit /\ [][CallerNext]_vars

\* C20: no change a caller makes to what get_all_rows returned, or to the
\* data of a SELECT built from it (appending or removing rows, assigning a
\* field of a returned row), changes the rows the Row Store holds.
C20_CallerCannotChangeRows == [][tables' = tables]_vars

(***************************************************************************)
(* The API server (api/main.py): one engine for all requests, and every    *)
(* endpoint a coroutine of the one event loop.  A request in flight holds  *)
(* a slot: pc is "waiting" until the event loop takes up its handler, then *)
(* it names the step the handler does next; row is the handler's validated *)
(* row.  api.serial is the engine that results when every handler taken up *)
(* so far is run as a whole, in the order in which they were taken up.     *)
(***************************************************************************)
\* most requests in flight at a time
MaxInFlight == 2

\* the commands that arrive at POST /query
ApiCmds ==
    {CreateCmd("t", UsersColumns, "id", <<"name">>),
     InsertCmd("t", <<>>, <<IntV(1), StrV("a")>>),
     InsertCmd("t", <<>>, <<IntV(1), Null>>),
     InsertCmd("t", <<>>, <<IntV(2), StrV("a")>>),
     DeleteCmd("t", <<Cond("id", "=", IntV(1))>>)}

\* POST /query and DELETE /tables/{table_name}
ApiRequests ==
    {[endpoint |-> "execute_query", parsed |-> parsed] : parsed \in ApiCmds}
        \cup {[endpoint |-> "drop_table", table_name |-> table] : table \in TableNames}

FreeSlot == [pc |-> "free", request |-> [endpoint |-> "none"], row |-> <<>>]

\* the handler of the slot has begun and not returned
Mid(slot) == slot.pc \notin {"free", "waiting"}

\* a handler with an await before each of its steps
AwaitBeforeEveryStep(endpoint) ==
    {"append", "index", "drop_schema", "drop_storage", "drop_indexes"}

\* the steps before which a handler awaits, where the event loop may take up
\* another coroutine: execute_query and drop_table are `async def` and hold
\* no await
AwaitPoints(endpoint) == {}

\* the event loop may run the next step of slot i: no other handler is
\* between its first step and its return, unless it stands at an await
CanRun(slots, i) ==
    /\ slots[i].pc # "free"
    /\ \A j \in DOMAIN slots \ {i} :
           Mid(slots[j]) => slots[j].pc \in AwaitPoints(slots[j].request.endpoint)

\* _execute_insert up to and with its uniqueness checks: [ok, row]
InsertChecked(S, parsed) ==
    LET table_name == parsed.table
        schema == S.schemas[table_name]
        v == validate_row(schema, InsertInput(schema, parsed))
    IN  IF table_name \notin DOMAIN S.schemas THEN [ok |-> FALSE, row |-> <<>>]
        ELSE IF ~CountsMatch(schema, parsed) THEN [ok |-> FALSE, row |-> <<>>]
        ELSE IF ~v.ok THEN [ok |-> FALSE, row |-> <<>>]
        ELSE IF insert_duplicate(S, table_name, schema, v.row) # ""
        THEN [ok |-> FALSE, row |-> <<>>]
        ELSE [ok |-> TRUE, row |-> v.row]

\* the index loop of _execute_insert with the row_idx it computes before
InsertIndexed(S, table_name, validated_row) ==
    IF table_name \in DOMAIN S.indexes
    THEN [S EXCEPT !.indexes =
             InsertIntoIndexes(S.indexes, table_name, validated_row,
                               Len(get_all_rows(S, table_name)) - 1, 1).indexes]
    ELSE S

\* one step of the handler execute_query: [S, slot].  An INSERT goes step by
\* step through its checks, the append and the index update; a handler that
\* returns or raises gives its slot up
execute_query(S, slot) ==
    LET parsed == slot.request.parsed
        checked == InsertChecked(S, parsed)
    IN  CASE slot.pc = "waiting" /\ parsed.command = "INSERT" ->
                 IF checked.ok
                 THEN [S |-> S, slot |-> [slot EXCEPT !.pc = "append", !.row = checked.row]]
                 ELSE [S |-> S, slot |-> FreeSlot]
          [] slot.pc = "waiting" /\ parsed.command # "INSERT" ->
                 [S |-> execute(S, parsed, <<"name">>).S, slot |-> FreeSlot]
          [] slot.pc = "append" ->
                 IF ~table_exists(S, parsed.table) THEN [S |-> S, slot |-> FreeSlot]
                 ELSE [S |-> insert_row(S, parsed.table, slot.row),
                       slot |-> [slot EXCEPT !.pc = "index"]]
          [] slot.pc = "index" ->
                 IF ~table_exists(S, parsed.table) THEN [S |-> S, slot |-> FreeSlot]
                 ELSE [S |-> InsertIndexed(S, parsed.table, slot.row), slot |-> FreeSlot]

\* one step of the handler drop_table of the API: [S, slot]
drop_table_endpoint(S, slot) ==
    LET table_name == slot.request.table_name
    IN  CASE slot.pc = "waiting" ->
                 IF table_name \notin DOMAIN S.schemas THEN [S |-> S, slot |-> FreeSlot]
                 ELSE [S |-> S, slot |-> [slot EXCEPT !.pc = "drop_schema"]]
          [] slot.pc = "drop_schema" ->
                 [S |-> [S EXCEPT !.schemas = Del(S.schemas, table_name)],
                  slot |-> [slot EXCEPT !.pc = "drop_storage"]]
          [] slot.pc = "drop_storage" ->
                 IF ~table_exists(S, table_name) THEN [S |-> S, slot |-> FreeSlot]
                 ELSE [S |-> drop_table(S, table_name),
                       slot |-> [slot EXCEPT !.pc = "drop_indexes"]]
          [] slot.pc = "drop_indexes" ->
                 [S |-> [S EXCEPT !.indexes = drop_table_indexes(S.indexes, table_name)],
                  slot |-> FreeSlot]

\* the body of the handler drop_table of the API, run as a whole
drop_table_handled(S, table_name) ==
    LET S1 == [S EXCEPT !.schemas = Del(S.schemas, table_name)]
    IN  IF table_name \notin DOMAIN S.schemas THEN S
        ELSE IF ~table_exists(S1, table_name) THEN S1
        ELSE [drop_table(S1, table_name) EXCEPT
                 !.indexes = drop_table_indexes(S1.indexes, table_name)]

\* the module-level construction of api/main.py on a machine without
\* api_database.json; no request has arrived
ApiInit ==
    \E S \in {NewEngine(TRUE, NoFile)} :
        /\ schemas = S.schemas
        /\ tables = S.tables
        /\ indexes = S.indexes
        /\ data_file = TRUE
        /\ disk = NoFile
        /\ dropped = {}
        /\ last = NoCmd
        /\ api = [slots |-> [i \in 1..MaxInFlight |-> FreeSlot], serial |-> S]

\* a request arrives and waits for the event loop
Accept ==
    /\ \E i \in DOMAIN api.slots, request \in ApiRequests :
           /\ api.slots[i].pc = "free"
           /\ api' = [api EXCEPT !.slots[i] =
                         [pc |-> "waiting", request |-> request, row |-> <<>>]]
    /\ UNCHANGED <<schemas, tables, indexes, data_file, disk, dropped, last>>

\* the event loop has run the next step of the handler of slot i; handled is
\* api.serial after the whole handler
RunStep(i, r, handled) ==
    /\ schemas' = r.S.schemas
    /\ tables' = r.S.tables
    /\ indexes' = r.S.indexes
    /\ disk' = r.S.disk
    /\ api' = [slots |-> [api.slots EXCEPT ![i] = r.slot],
               serial |-> IF api.slots[i].pc = "waiting" THEN handled ELSE api.serial]
    /\ UNCHANGED <<data_file, dropped, last>>

\* a step of a POST /query; as a whole the handler is executor.execute(parsed)
ExecuteQuery ==
    \E i \in DOMAIN api.slots :
        /\ CanRun(api.slots, i)
        /\ api.slots[i].request.endpoint = "execute_query"
        /\ \E r \in {execute_query(Cur, api.slots[i])},
              handled \in {execute(api.serial, api.slots[i].request.parsed, <<"name">>).S} :
               RunStep(i, r, handled)

\* a step of a DELETE /tables/{table_name}
DropTableRequest ==
    \E i \in DOMAIN api.slots :
        /\ CanRun(api.slots, i)
        /\ api.slots[i].request.endpoint = "drop_table"
        /\ \E r \in {drop_table_endpoint(Cur, api.slots[i])},
              handled \in {drop_table_handled(api.serial, api.slots[i].request.table_name)} :
               RunStep(i, r, handled)

ApiNext ==
    \/ Accept
    \/ ExecuteQuery
    \/ DropTableRequest

ApiSpec == ApiInit /\ [][ApiNext]_vars

\* C21: with several API requests in flight against the one engine, no two
\* handlers are between their first step and their return at the same time,
\* and whenever no handler is, the engine is in the state that running the
\* handlers as wholes, one after the other, leads to.
C21_CommandsRunOneAtATime ==
    /\ \A i, j \in DOMAIN api.slots :
           i # j => ~(Mid(api.slots[i]) /\ Mid(api.slots[j]))
    /\ (\A i \in DOMAIN api.slots : ~Mid(api.slots[i])) => Cur = api.serial

\* a drop of the API has removed the schema and not yet the rows, while an
\* INSERT into the same table waits in flight
C21_Witness ==
    \E i, j \in DOMAIN api.slots :
        /\ api.slots[i].pc = "drop_storage"
        /\ api.slots[j].pc = "waiting"
        /\ api.slots[j].request.endpoint = "execute_query"
        /\ api.slots[j].request.parsed.command = "INSERT"
        /\ tables["t"] # <<>>

\* the commands with a WHERE of the model, and a SELECT that compares the
\* integer column with a text
CompareCmds ==
    WhereCmds \cup UpdateCmds \cup DeleteCmds
        \cup {SelectCmd(table, <<"*">>, <<Cond("id", "<", StrV("b"))>>, NoJoin, NoOrder,
                        NoLimit) : table \in TableNames}

\* a leaf with >, <, >= or <= meets a stored value that Python cannot order
\* against its literal
HasUnorderable(rows, where) ==
    \E i \in 1..Len(rows), k \in 1..Len(where) :
        /\ where[k].operator \in {">", "<", ">=", "<="}
        /\ ~Comparable(Get(rows[i], where[k].column), where[k].value)

\* C22: when an ordering comparison of a WHERE meets a stored value and a
\* literal that cannot be ordered, the row counts as not matching and the
\* SELECT, UPDATE or DELETE completes with success=true over the other rows
\* (an UPDATE may still stop at a row that fails validation).
C22_UnorderableComparisonFailsClosed ==
    \A parsed \in CompareCmds :
        (/\ parsed.table \in LiveTables
         /\ HasUnorderable(tables[parsed.table], parsed.where)) =>
            LET r == execute(Cur, parsed, <<>>)
                rows == tables[parsed.table]
            IN  CASE parsed.command = "SELECT" ->
                         /\ r.result.success
                         /\ r.result.data =
                                SelectSeq(rows, LAMBDA row : AllLeavesHold(row, parsed.where))
                  [] parsed.command = "DELETE" ->
                         /\ r.result.success
                         /\ r.S.tables[parsed.table] = RowsToKeep(rows, parsed.where)
                  [] OTHER ->
                         r.result.success \/ r.result.message \in ValidationErrors

\* the index_map with position row_idx put at the end of the bucket of value
WithEntry(index_map, value, row_idx) ==
    LET key == IF HasKey(index_map, value) THEN KeyOf(index_map, value) ELSE value
    IN  [x \in DOMAIN index_map \cup {key} |->
            IF x = key
            THEN Append(IF HasKey(index_map, value) THEN index_map[key] ELSE <<>>, row_idx)
            ELSE index_map[x]]

\* C23: a successful INSERT appends: the rows the table held keep position
\* and contents, there is exactly one row more, the new row is at position
\* length-1, and every index of the table gains exactly the entry from the
\* new row's non-null value to length-1, all other entries unchanged.
C23_InsertAppendsRowAndEntries ==
    \A parsed \in BindCmds :
        LET r == execute(Cur, parsed, <<>>)
            table_name == parsed.table
            before == tables[table_name]
            after == r.S.tables[table_name]
            new == after[Len(after)]
        IN  r.result.success =>
                /\ Len(after) = Len(before) + 1
                /\ SubSeq(after, 1, Len(before)) = before
                /\ new = validate_row(schemas[table_name],
                                      InsertInput(schemas[table_name], parsed)).row
                /\ DOMAIN r.S.indexes = DOMAIN indexes
                /\ table_name \in DOMAIN indexes =>
                       /\ Len(r.S.indexes[table_name]) = Len(indexes[table_name])
                       /\ \A i \in 1..Len(indexes[table_name]) :
                              LET old == indexes[table_name][i]
                                  value == Get(new, old.column_name)
                              IN  r.S.indexes[table_name][i] =
                                      IF value.k = "null" THEN old
                                      ELSE [old EXCEPT !.index_map =
                                               WithEntry(@, value, Len(after) - 1)]

\* an INSERT of a row with a name has just succeeded on a table that held a
\* row: the new row is the second, the first index holds two values and both
\* indexes map the values of the new row to 1
C23_Witness ==
    /\ last.command = "INSERT"
    /\ Len(tables[last.table]) = 2
    /\ last.table \in DOMAIN indexes
    /\ Len(indexes[last.table]) = 2
    /\ Cardinality(DOMAIN indexes[last.table][1].index_map) = 2
    /\ \A i \in 1..2 :
           LET index == indexes[last.table][i]
           IN  lookup(index, Get(tables[last.table][2], index.column_name)) = <<1>>

(***************************************************************************)
(* The Index Set on its own: the two indexes of a table t, on id and on    *)
(* name, under any calls of Index.add, Index.remove and                    *)
(* IndexManager.rebuild_indexes.  last tells the call of the last step     *)
(* and whether it returned (ok) or raised.                                 *)
(***************************************************************************)
\* most rows of a row sequence handed to rebuild_indexes; add and remove
\* take the positions 0..MaxIndexRows-1
MaxIndexRows == 2
\* most positions an index holds before an add
MaxEntries == 2

\* the values add, remove and lookup are called with
IndexValues == {Null, IntV(1), BoolV(TRUE), StrV("a")}

\* the row sequences handed to rebuild_indexes
IndexRows ==
    UNION {[1..n -> [id : {Null, IntV(1), BoolV(TRUE)}, name : {Null, StrV("a")}]] :
              n \in 0..MaxIndexRows}

\* the number of positions the index holds
RECURSIVE Entries(_, _)
Entries(index_map, keys) ==
    IF keys = {} THEN 0
    ELSE LET key == CHOOSE key \in keys : TRUE
         IN  Len(index_map[key]) + Entries(index_map, keys \ {key})

\* create_index(t, id, True), then create_index(t, name, unique)
IndexInit ==
    /\ \E unique \in BOOLEAN :
           indexes = create_index(create_index(<<>>, "t", "id", TRUE).indexes,
                                  "t", "name", unique).indexes
    /\ schemas = <<>>
    /\ tables = <<>>
    /\ data_file = FALSE
    /\ disk = NoFile
    /\ dropped = {}
    /\ last = NoCmd
    /\ api = NoApi

\* index.add(value, row_idx) on the i-th index
IndexAdd ==
    /\ \E i \in DOMAIN indexes["t"], value \in IndexValues, row_idx \in 0..(MaxIndexRows - 1) :
           /\ Entries(indexes["t"][i].index_map, DOMAIN indexes["t"][i].index_map)
                  < MaxEntries
           /\ \E r \in {add(indexes["t"][i], value, row_idx)} :
                  /\ indexes' = [indexes EXCEPT !["t"][i] = r.index]
                  /\ last' = [command |-> "add", ok |-> r.ok]
    /\ UNCHANGED <<schemas, tables, data_file, disk, dropped, api>>

\* index.remove(value, row_idx) on the i-th index
IndexRemove ==
    /\ \E i \in DOMAIN indexes["t"], value \in IndexValues, row_idx \in 0..(MaxIndexRows - 1) :
           indexes' = [indexes EXCEPT !["t"][i] = remove(@, value, row_idx)]
    /\ last' = [command |-> "remove", ok |-> TRUE]
    /\ UNCHANGED <<schemas, tables, data_file, disk, dropped, api>>

\* index_mgr.rebuild_indexes(t, rows)
Rebuild ==
    /\ \E rows \in IndexRows :
           \E r \in {rebuild_indexes(indexes, "t", rows)} :
               /\ indexes' = r.indexes
               /\ last' = [command |-> "rebuild_indexes", ok |-> r.ok]
    /\ UNCHANGED <<schemas, tables, data_file, disk, dropped, api>>

IndexNext ==
    \/ IndexAdd
    \/ IndexRemove
    \/ Rebuild

IndexSpec == IndexInit /\ [][IndexNext]_vars

\* C24: Index.add with a null value changes nothing; add on a unique index
\* with a value already present fails and leaves the index unchanged; any
\* other add puts the position at the end of the bucket of that value and
\* changes no other bucket.
C24_AddAppendsOrRefuses ==
    \A i \in DOMAIN indexes["t"], value \in IndexValues, row_idx \in 0..(MaxIndexRows - 1) :
        LET index == indexes["t"][i]
            r == add(index, value, row_idx)
            old == index.index_map
            new == r.index.index_map
            present == \E key \in DOMAIN old : PyEq(key, value)
        IN  /\ value.k = "null" => r.ok /\ r.index = index
            /\ value.k # "null" /\ index.unique /\ present => ~r.ok /\ r.index = index
            /\ value.k # "null" /\ ~(index.unique /\ present) =>
                   /\ r.ok
                   /\ lookup(r.index, value) = Append(lookup(index, value), row_idx)
                   /\ \A key \in DOMAIN old :
                          ~PyEq(key, value) => key \in DOMAIN new /\ new[key] = old[key]
                   /\ \A key \in DOMAIN new : key \in DOMAIN old \/ key = value
                   /\ r.index.unique = index.unique
                   /\ r.index.column_name = index.column_name

\* an add has just been refused, the unique index on id holds a value, and
\* the index on name, which is not unique, holds two positions for one value
C24_Witness ==
    /\ last = [command |-> "add", ok |-> FALSE]
    /\ indexes["t"][1].index_map # <<>>
    /\ ~indexes["t"][2].unique
    /\ \E key \in DOMAIN indexes["t"][2].index_map : Len(indexes["t"][2].index_map[key]) = 2

\* C25: in every reachable state of a unique index each value maps to at
\* most one row position and no bucket is empty, also after a rebuild that
\* failed part-way on a duplicate value.
C25_UniqueIndexHoldsOnePosition ==
    \A table \in DOMAIN indexes : \A i \in DOMAIN indexes[table] :
        LET index == indexes[table][i]
        IN  index.unique =>
                /\ \A key \in DOMAIN index.index_map : Len(index.index_map[key]) = 1
                /\ \A value \in IndexValues : Len(lookup(index, value)) <= 1
                /\ \A k1, k2 \in DOMAIN index.index_map : PyEq(k1, k2) => k1 = k2

\* a rebuild has just failed on a duplicate value, and the unique index on id
\* holds the value with the position of its first row
C25_Witness ==
    /\ last = [command |-> "rebuild_indexes", ok |-> FALSE]
    /\ indexes["t"][1].unique
    /\ lookup(indexes["t"][1], IntV(1)) = <<0>>

\* the positions of the rows that hold the value in the column, in row order
PositionsOf(rows, column_name, value) ==
    LET at == SelectSeq([p \in 1..Len(rows) |-> p],
                        LAMBDA p : /\ Get(rows[p], column_name).k # "null"
                                   /\ PyEq(Get(rows[p], column_name), value))
    IN  [k \in 1..Len(at) |-> at[k] - 1]

\* C26: for any row sequence and any prior index contents, rebuild applied
\* twice with the same rows gives for every value the lookup result that
\* rebuild applied once gives, and that result lists exactly the positions
\* of the rows holding the value, in row order.
C26_RebuildIdempotentAndExact ==
    \A rows \in IndexRows :
        LET once == rebuild_indexes(indexes, "t", rows).indexes
            twice == rebuild_indexes(once, "t", rows).indexes
        IN  \A i \in DOMAIN indexes["t"], value \in IndexValues \ {Null} :
                /\ lookup(twice["t"][i], value) = lookup(once["t"][i], value)
                /\ lookup(once["t"][i], value)
                       = PositionsOf(rows, indexes["t"][i].column_name, value)

(***************************************************************************)
(* Validation on its own: a table t (x ..., y VARCHAR) whose column x is   *)
(* of any of the declarations below, and INSERTs that hand validate_row    *)
(* rows of every shape and value.                                          *)
(***************************************************************************)
\* the largest n of a VARCHAR(n) declaration
MaxLength == 2
\* most rows INSERT stores in the table
MaxStored == 1

\* the declarations of column x: INTEGER or VARCHAR, with or without a
\* length, with or without NOT NULL
ColumnDefs ==
    {ColInfo("x", "INTEGER", NoLength, nullable) : nullable \in BOOLEAN}
        \cup {ColInfo("x", "VARCHAR", max_length, nullable) :
                 max_length \in {NoLength} \cup 0..MaxLength, nullable \in BOOLEAN}

\* the values _parse_value makes of literals: NULL, integers, floats (3.7,
\* 1.0), TRUE, and texts
ValueInputs ==
    {Null, IntV(1), IntV(12), FloatV(37), FloatV(10), BoolV(TRUE),
     StrV(""), StrV("a"), StrV("ab"), StrV("abc"), StrV("1")}

ValidateCmds ==
    {InsertCmd("t", <<"x", "y">>, <<v, w>>) : v \in ValueInputs, w \in {Null, StrV("a")}}
        \cup {InsertCmd("t", <<"x">>, <<v>>) : v \in ValueInputs}
        \cup {InsertCmd("t", <<"y">>, <<w>>) : w \in {Null, StrV("a")}}
        \cup {InsertCmd("t", <<"x", "zz">>, <<v, IntV(1)>>) : v \in ValueInputs}

\* the engine after CREATE TABLE t (x ..., y VARCHAR)
ValidateInit ==
    \E x \in ColumnDefs :
        \E S \in {execute_create_table(NewEngine(FALSE, NoFile),
                      CreateCmd("t", <<x, ColInfo("y", "VARCHAR", NoLength, TRUE)>>,
                                NoPK, <<>>), <<>>).S} :
            /\ schemas = S.schemas
            /\ tables = S.tables
            /\ indexes = S.indexes
            /\ data_file = FALSE
            /\ disk = NoFile
            /\ dropped = {}
            /\ last = NoCmd
            /\ api = NoApi

\* an INSERT with a column list, while the table holds fewer than MaxStored rows
InsertValidated ==
    \E parsed \in ValidateCmds :
        /\ Len(tables[parsed.table]) < MaxStored
        /\ Step(parsed, <<>>)

ValidateNext == InsertValidated

ValidateSpec == ValidateInit /\ [][ValidateNext]_vars

\* the rows the INSERTs hand to validate_row, and the empty row
InputRows ==
    {ZipDict(parsed.columns, parsed.values) : parsed \in ValidateCmds} \cup {<<>>}

\* C27: validate_row returns a row with exactly the schema's columns; a
\* column missing from the input becomes null when nullable and fails the
\* validation when not; an explicit null is accepted only for a nullable
\* column; an input key that is no schema column fails the validation; the
\* input row is not modified.
C27_ValidateRowShapesRow ==
    \A row \in InputRows :
        LET schema == schemas["t"]
            v == validate_row(schema, row)
            given(column) == column.name \in DOMAIN row
            empty(column) == ~given(column) \/ row[column.name] = Null
        IN  /\ v.input = row
            /\ DOMAIN row \ ColumnNameSet(schema) # {} => ~v.ok
            /\ \A i \in DOMAIN schema.columns :
                   empty(schema.columns[i]) /\ ~schema.columns[i].nullable => ~v.ok
            /\ (/\ DOMAIN row \subseteq ColumnNameSet(schema)
                /\ \A i \in DOMAIN schema.columns :
                       empty(schema.columns[i]) /\ schema.columns[i].nullable) => v.ok
            /\ v.ok =>
                   /\ DOMAIN v.row = ColumnNameSet(schema)
                   /\ \A i \in DOMAIN schema.columns :
                          empty(schema.columns[i]) => v.row[schema.columns[i].name] = Null

\* an INSERT that names only x has just stored a row in a table whose x is
\* NOT NULL: the row has both columns, y is null, and the same INSERT with a
\* key zz or without x would fail validation
C27_Witness ==
    /\ last.command = "INSERT"
    /\ last.columns = <<"x">>
    /\ ~schemas["t"].columns[1].nullable
    /\ DOMAIN tables["t"][1] = {"x", "y"}
    /\ tables["t"][1]["y"] = Null
    /\ ~validate_row(schemas["t"], [y |-> StrV("a")]).ok
    /\ ~validate_row(schemas["t"], [x |-> IntV(1), zz |-> IntV(1)]).ok

\* C28: for a VARCHAR(n) column, whatever n >= 0, a value whose string form
\* is longer than n is rejected and a value whose string form has at most n
\* characters is stored as that string; VARCHAR(0) rejects every non-empty
\* string.
C28_VarcharLengthEnforced ==
    LET column == get_column(schemas["t"], "x")
    IN  column.data_type = "VARCHAR" /\ column.max_length # NoLength =>
            \A value \in ValueInputs \ {Null} :
                LET r == validate_value(column, value)
                IN  IF Len(PyStr(value)) > column.max_length THEN ~r.ok
                    ELSE r = Ok(StrV(PyStr(value)))

\* C29: for an INTEGER column the coercion accepts integers and
\* integer-valued strings and stores that integer; what it stores is an
\* integer, never a boolean, and never differs in value from what was
\* supplied (3.7 is rejected, not stored as 3).
C29_IntegerCoercionKeepsValue ==
    LET column == get_column(schemas["t"], "x")
    IN  column.data_type = "INTEGER" =>
            \A value \in ValueInputs \ {Null} :
                LET r == validate_value(column, value)
                IN  /\ value.k = "int" => r = Ok(value)
                    /\ value.k = "str" /\ IsIntNumeral(value.s) =>
                           r = Ok(IntV(IntOfStr(value.s)))
                    /\ r.ok =>
                           /\ r.v.k = "int"
                           /\ IsNumber(value) => Tenths(r.v) = Tenths(value)

\* the values looked up after an UPDATE: those INSERT and UPDATE can store
\* and some that no row holds
LookupValues ==
    {IntV(i) : i \in 1..(MaxInt + 1)} \cup {StrV("a"), StrV("ab"), StrV("1"), StrV("2")}

\* C30: a successful UPDATE persists the whole new row sequence and rebuilds
\* every index of the table from it: right after it, a lookup of any value in
\* any index of the table returns exactly the positions of the rows that
\* hold the value, values assigned by the UPDATE included.
C30_UpdatePersistsAndRebuilds ==
    \A parsed \in UpdateCmds :
        LET r == execute(Cur, parsed, <<>>)
            table_name == parsed.table
            rows == r.S.tables[table_name]
        IN  r.result.success =>
                /\ data_file =>
                       r.S.disk.exists /\ JsonLoad(r.S.disk.doc)[table_name] = rows
                /\ table_name \in DOMAIN r.S.indexes =>
                       \A i \in DOMAIN r.S.indexes[table_name], value \in LookupValues :
                           lookup(r.S.indexes[table_name][i], value)
                               = PositionsOf(rows, r.S.indexes[table_name][i].column_name,
                                             value)

\* with a storage location, a table of two rows without names: an UPDATE
\* with a WHERE succeeds, gives one row a name and enters it in the index
C30_Witness ==
    /\ data_file
    /\ "t" \in LiveTables /\ "t" \in DOMAIN indexes
    /\ Len(tables["t"]) = 2
    /\ \E parsed \in UpdateCmds :
           LET r == execute(Cur, parsed, <<>>)
           IN  /\ parsed.where # NoWhere
               /\ r.result.success
               /\ r.S.tables # tables
               /\ r.S.disk # disk
               /\ lookup(get_index(indexes, "t", "name"), StrV("a")) = <<>>
               /\ lookup(get_index(r.S.indexes, "t", "name"), StrV("a")) # <<>>

(***************************************************************************)
(* SQL Parser (database/parser.py).  A text is the sequence of its         *)
(* lexemes: every blank and every punctuation character is one element, a  *)
(* run of letters and digits is one element.  A statement is the list of   *)
(* its non-blank tokens, each with its token type and its text; a Where    *)
(* token also has its sub-tokens.                                          *)
(***************************************************************************)
\* str(token) as one string
RECURSIVE Text(_)
Text(lexemes) == IF lexemes = <<>> THEN "" ELSE Head(lexemes) \o Text(Tail(lexemes))

\* str.upper() for the words the parser looks at
UpperWord(x) ==
    CASE x \in {"primary", "Primary"} -> "PRIMARY"
      [] x \in {"key", "Key"} -> "KEY"
      [] x = "unique" -> "UNIQUE"
      [] x = "not" -> "NOT"
      [] x = "null" -> "NULL"
      [] x = "true" -> "TRUE"
      [] x = "false" -> "FALSE"
      [] x = "integer" -> "INTEGER"
      [] x = "varchar" -> "VARCHAR"
      [] x = "select" -> "SELECT"
      [] x = "values" -> "VALUES"
      [] x = "table" -> "TABLE"
      [] x = "into" -> "INTO"
      [] x = "from" -> "FROM"
      [] OTHER -> x
Upper(text) == [i \in 1..Len(text) |-> UpperWord(text[i])]

\* str.strip()
RECURSIVE LStrip(_)
LStrip(text) == IF text # <<>> /\ Head(text) = " " THEN LStrip(Tail(text)) ELSE text
RECURSIVE RStrip(_)
RStrip(text) ==
    IF text # <<>> /\ text[Len(text)] = " "
    THEN RStrip(SubSeq(text, 1, Len(text) - 1))
    ELSE text
Strip(text) == RStrip(LStrip(text))

\* `sub in text`
Contains(text, sub) ==
    \E i \in 0..(Len(text) - Len(sub)) : SubSeq(text, i + 1, i + Len(sub)) = sub

\* str.split(sep, maxsplit): maxsplit = -1 splits at every sep
RECURSIVE Split(_, _, _)
Split(text, sep, maxsplit) ==
    IF maxsplit = 0 \/ ~Contains(text, <<sep>>) THEN <<text>>
    ELSE LET i == CHOOSE i \in 1..Len(text) :
                      text[i] = sep /\ \A j \in 1..(i - 1) : text[j] # sep
         IN  <<SubSeq(text, 1, i - 1)>>
                 \o Split(SubSeq(text, i + 1, Len(text)), sep,
                          IF maxsplit < 0 THEN maxsplit ELSE maxsplit - 1)
\* str.split(): at runs of blanks, without empty pieces
SplitBlanks(text) == SelectSeq(Split(text, " ", 0 - 1), LAMBDA piece : piece # <<>>)
\* ' '.join(parts)
RECURSIVE JoinBlank(_)
JoinBlank(parts) ==
    IF parts = <<>> THEN <<>>
    ELSE IF Len(parts) = 1 THEN parts[1]
    ELSE parts[1] \o <<" ">> \o JoinBlank(Tail(parts))
\* str.isdigit()
IsDigit(text) == Len(text) = 1 /\ \E i \in 0..20 : StrOfNat(i) = text[1]

Tok(type, value) == [type |-> type, value |-> value, tokens |-> <<>>]
\* a ValueError leaves the parser, or it returns the structured command
ParseError(message) == [raised |-> TRUE, message |-> message, parsed |-> NoCmd]
Parsed(parsed) == [raised |-> FALSE, message |-> "", parsed |-> parsed]

\* SQLParser._parse_value
parse_value(text) ==
    LET value_str == Strip(text)
        n == Len(value_str)
        quoted(q) == n > 0 /\ value_str[1] = q /\ value_str[n] = q
    IN  IF quoted("'") \/ quoted("\"")
        THEN StrV(Text(SubSeq(value_str, 2, n - 1)))
        ELSE IF Upper(value_str) \in {<<"TRUE">>, <<"FALSE">>}
        THEN BoolV(Upper(value_str) = <<"TRUE">>)
        ELSE IF Upper(value_str) = <<"NULL">> THEN Null
        ELSE IF Contains(value_str, <<".">>)
        THEN IF IsFloatNumeral(Text(value_str))
             THEN FloatV(FloatOfStr(Text(value_str)))
             ELSE StrV(Text(value_str))
        ELSE IF IsIntNumeral(Text(value_str)) THEN IntV(IntOfStr(Text(value_str)))
        ELSE StrV(Text(value_str))

\* SQLParser._parse_values
parse_values(values_str) ==
    LET vals == Split(values_str, ",", 0 - 1)
    IN  [i \in 1..Len(vals) |-> parse_value(Strip(vals[i]))]

\* SQLParser._split_by_comma
split_by_comma(token) ==
    LET content == SubSeq(token.value, 2, Len(token.value) - 1)
        pieces == Split(content, ",", 0 - 1)
    IN  [i \in 1..Len(pieces) |-> Strip(pieces[i])]

\* SQLParser._extract_name
extract_name(token) == Text(Strip(token.value))

\* the `for i, token in enumerate(tokens)` loops that take the name after the
\* first keyword: "" stands for None
NameAfter(tokens, types, keyword) ==
    LET hits == {i \in 1..Len(tokens) :
                    tokens[i].type \in types /\ Upper(tokens[i].value) = <<keyword>>}
        i == CHOOSE i \in hits : \A j \in hits : i <= j
    IN  IF hits = {} \/ i + 1 > Len(tokens) THEN "" ELSE extract_name(tokens[i + 1])

\* SQLParser._parse_column_definition; valid is FALSE where it raises ValueError
parse_column_definition(col_def) ==
    LET parts == SplitBlanks(Strip(col_def))
        col_name == Text(parts[1])
        col_type == Upper(parts[2])
        match == /\ Contains(col_type, <<"(">>)
                 /\ Len(col_type) >= 4
                 /\ col_type[1] = "VARCHAR" /\ col_type[2] = "("
                 /\ IsDigit(<<col_type[3]>>) /\ col_type[4] = ")"
        remaining == Upper(JoinBlank(SubSeq(parts, 3, Len(parts))))
    IN  IF Len(parts) < 2
        THEN [valid |-> FALSE]
        ELSE [valid |-> TRUE,
              name |-> col_name,
              type |-> IF match THEN "VARCHAR" ELSE Text(col_type),
              max_length |-> IF match THEN IntOfStr(col_type[3]) ELSE NoLength,
              nullable |-> ~Contains(remaining, <<"NOT", " ", "NULL">>),
              primary_key |-> Contains(remaining, <<"PRIMARY", " ", "KEY">>),
              unique |-> Contains(remaining, <<"UNIQUE">>)]

\* the loop of _parse_create_table over the column definitions from the i-th
\* on: every column marked PRIMARY KEY is assigned to primary_key in turn
RECURSIVE PrimaryKeyFrom(_, _, _)
PrimaryKeyFrom(col_infos, i, primary_key) ==
    IF i > Len(col_infos) THEN primary_key
    ELSE PrimaryKeyFrom(col_infos, i + 1,
                        IF col_infos[i].primary_key THEN col_infos[i].name
                        ELSE primary_key)

\* the column definitions of every Parenthesis token, in order
RECURSIVE ColumnDefsOf(_)
ColumnDefsOf(parens) ==
    IF parens = <<>> THEN <<>>
    ELSE split_by_comma(Head(parens)) \o ColumnDefsOf(Tail(parens))

\* SQLParser._parse_create_table
parse_create_table(tokens) ==
    LET table_name == NameAfter(tokens, {"Keyword"}, "TABLE")
        parens == SelectSeq(tokens, LAMBDA token : token.type = "Parenthesis")
        column_defs == ColumnDefsOf(parens)
        col_infos == [i \in 1..Len(column_defs) |->
                         parse_column_definition(column_defs[i])]
        unique == SelectSeq(col_infos, LAMBDA col_info : col_info.unique)
    IN  IF table_name = "" THEN ParseError("Missing table name in CREATE TABLE")
        ELSE IF \E i \in 1..Len(col_infos) : ~col_infos[i].valid
        THEN ParseError("Invalid column definition")
        ELSE Parsed([command |-> "CREATE_TABLE",
                     table |-> table_name,
                     columns |-> col_infos,
                     primary_key |-> PrimaryKeyFrom(col_infos, 1, NoPK),
                     unique_columns |-> [i \in 1..Len(unique) |-> unique[i].name]])

\* the column list _parse_insert finds in the Parenthesis tokens from the
\* i-th on; <<>> stands for None
RECURSIVE InsertColumns(_, _)
InsertColumns(parens, i) ==
    IF i > Len(parens) THEN <<>>
    ELSE LET content == Strip(SubSeq(parens[i].value, 2, Len(parens[i].value) - 1))
             items == Split(content, ",", 0 - 1)
             first_item == Strip(items[1])
         IN  IF /\ ~(content # <<>> /\ Upper(content)[1] = "SELECT")
                /\ Contains(content, <<",">>)
                /\ ~(IsDigit(first_item) \/ (first_item # <<>> /\ first_item[1] = "'"))
             THEN [k \in 1..Len(items) |-> Text(Strip(items[k]))]
             ELSE InsertColumns(parens, i + 1)

\* SQLParser._parse_insert
parse_insert(tokens) ==
    LET table_name == NameAfter(tokens, {"Keyword"}, "INTO")
        parens == SelectSeq(tokens, LAMBDA token : token.type = "Parenthesis")
        columns == InsertColumns(parens, 1)
        after == {i \in 1..Len(tokens) :
                     /\ tokens[i].type = "Parenthesis"
                     /\ \E j \in 1..(i - 1) :
                            /\ tokens[j].type = "Keyword"
                            /\ Upper(tokens[j].value) = <<"VALUES">>}
        first == CHOOSE i \in after : \A j \in after : i <= j
        values == IF after = {} THEN <<>>
                  ELSE parse_values(Strip(SubSeq(tokens[first].value, 2,
                                                 Len(tokens[first].value) - 1)))
    IN  IF table_name = "" THEN ParseError("Missing table name in INSERT")
        ELSE IF values = <<>> THEN ParseError("Missing VALUES in INSERT")
        ELSE Parsed([command |-> "INSERT", table |-> table_name,
                     columns |-> columns, values |-> values])

\* SQLParser._parse_comparison; valid is FALSE where it raises ValueError
parse_comparison(comp_token) ==
    LET parts == Split(comp_token.value, "=", 1)
    IN  IF Len(parts) # 2 THEN [valid |-> FALSE]
        ELSE [valid |-> TRUE, column |-> Text(Strip(parts[1])),
              value |-> parse_value(Strip(parts[2]))]

\* SQLParser._extract_operator
extract_operator(comp_token) ==
    LET comp_str == comp_token.value
    IN  IF Contains(comp_str, <<">", "=">>) THEN ">="
        ELSE IF Contains(comp_str, <<"<", "=">>) THEN "<="
        ELSE IF Contains(comp_str, <<">">>) THEN ">"
        ELSE IF Contains(comp_str, <<"<">>) THEN "<"
        ELSE IF Contains(comp_str, <<"=">>) THEN "="
        ELSE IF Contains(comp_str, <<"!", "=">>) \/ Contains(comp_str, <<"<", ">">>)
        THEN "!="
        ELSE "="

\* SQLParser._parse_where: the list of conjoined conditions
parse_where(where_token) ==
    LET comps == SelectSeq(where_token.tokens, LAMBDA token : token.type = "Comparison")
        pairs == [i \in 1..Len(comps) |-> parse_comparison(comps[i])]
    IN  IF \E i \in 1..Len(pairs) : ~pairs[i].valid
        THEN ParseError("Invalid comparison")
        ELSE IF comps = <<>> THEN ParseError("Empty WHERE clause")
        ELSE Parsed([i \in 1..Len(comps) |->
                        Cond(pairs[i].column, extract_operator(comps[i]),
                             pairs[i].value)])

\* `for token in tokens: if isinstance(token, Where)`: where = None without one
WhereOf(tokens) ==
    LET wheres == SelectSeq(tokens, LAMBDA token : token.type = "Where")
    IN  IF wheres = <<>> THEN Parsed(NoWhere) ELSE parse_where(wheres[1])

\* SQLParser._parse_select, for statements without JOIN, ORDER BY and LIMIT
parse_select(tokens) ==
    LET hits == {i \in 1..Len(tokens) :
                    tokens[i].type = "DML" /\ Upper(tokens[i].value) = <<"SELECT">>}
        first == CHOOSE i \in hits : \A j \in hits : i <= j
        col_token == tokens[first + 1]
        columns == IF hits = {} \/ first + 1 > Len(tokens) THEN <<>>
                   ELSE IF col_token.value = <<"*">> THEN <<"*">>
                   ELSE IF col_token.type = "IdentifierList"
                   THEN LET ids == Split(col_token.value, ",", 0 - 1)
                        IN  [i \in 1..Len(ids) |-> Text(Strip(ids[i]))]
                   ELSE IF col_token.type = "Identifier"
                   THEN <<Text(Strip(col_token.value))>>
                   ELSE <<>>
        where == WhereOf(tokens)
    IN  IF where.raised THEN where
        ELSE Parsed(SelectCmd(NameAfter(tokens, {"Keyword"}, "FROM"), columns,
                              where.parsed, NoJoin, NoOrder, NoLimit))

\* the SET clause of _parse_update: the Comparison tokens after the first SET
\* keyword and before a WHERE keyword, later assignments to a column replacing
\* earlier ones
SetClause(tokens) ==
    LET sets == {i \in 1..Len(tokens) :
                    tokens[i].type = "Keyword" /\ Upper(tokens[i].value) = <<"SET">>}
        first == CHOOSE i \in sets : \A j \in sets : i <= j
        inside(j) == /\ sets # {} /\ j > first
                     /\ \A k \in (first + 1)..j :
                            ~(tokens[k].type = "Keyword"
                              /\ Upper(tokens[k].value) = <<"WHERE">>)
        at == {j \in 1..Len(tokens) : inside(j) /\ tokens[j].type = "Comparison"}
        pair(j) == parse_comparison(tokens[j])
    IN  IF \E j \in at : ~pair(j).valid THEN ParseError("Invalid comparison")
        ELSE Parsed([col \in {pair(j).column : j \in at} |->
                        pair(CHOOSE j \in at :
                                 /\ pair(j).column = col
                                 /\ \A k \in at : pair(k).column = col => k <= j).value])

\* SQLParser._parse_update: the UPDATE token is looked for among the tokens of
\* type Keyword
parse_update(tokens) ==
    LET table_name == NameAfter(tokens, {"Keyword"}, "UPDATE")
        updates == SetClause(tokens)
        where == WhereOf(tokens)
    IN  IF table_name = "" THEN ParseError("Missing table name in UPDATE")
        ELSE IF updates.raised THEN updates
        ELSE IF where.raised THEN where
        ELSE Parsed(UpdateCmd(table_name, updates.parsed, where.parsed))

\* SQLParser._parse_delete
parse_delete(tokens) ==
    LET table_name == NameAfter(tokens, {"Keyword"}, "FROM")
        where == WhereOf(tokens)
    IN  IF table_name = "" THEN ParseError("Missing table name in DELETE")
        ELSE IF where.raised THEN where
        ELSE Parsed(DeleteCmd(table_name, where.parsed))

\* SQLParser._parse_drop
parse_drop(tokens) ==
    LET table_name == NameAfter(tokens, {"Keyword"}, "TABLE")
    IN  IF table_name = "" THEN ParseError("Missing table name in DROP TABLE")
        ELSE Parsed(DropCmd(table_name))

\* SQLParser._get_command_type: "" where it raises ValueError
get_command_type(tokens) ==
    LET hits == {i \in 1..Len(tokens) : tokens[i].type \in {"DML", "DDL"}}
    IN  IF hits = {} THEN ""
        ELSE Text(Upper(tokens[CHOOSE i \in hits : \A j \in hits : i <= j].value))

\* SQLParser.parse on the tokens of the first statement
parse(tokens) ==
    LET command == get_command_type(tokens)
    IN  CASE command = "" -> ParseError("Could not determine command type")
          [] command = "CREATE" -> parse_create_table(tokens)
          [] command = "INSERT" -> parse_insert(tokens)
          [] command = "SELECT" -> parse_select(tokens)
          [] command = "UPDATE" -> parse_update(tokens)
          [] command = "DELETE" -> parse_delete(tokens)
          [] command = "DROP" -> parse_drop(tokens)
          [] OTHER -> ParseError("Unsupported command")

(***************************************************************************)
(* The shell as a state machine: one step per SQL statement, parsed and    *)
(* then executed (REPL._execute_sql).                                      *)
(***************************************************************************)
\* most rows INSERT statements are allowed to grow a table to
MaxParsedRows == 3

\* the words of a clause with one blank between them
RECURSIVE Words(_)
Words(words) ==
    IF Len(words) <= 1 THEN words ELSE <<Head(words), " ">> \o Words(Tail(words))
\* a comma-separated list in parentheses
RECURSIVE Commas(_)
Commas(items) ==
    IF Len(items) <= 1 THEN IF items = <<>> THEN <<>> ELSE items[1]
    ELSE items[1] \o <<",", " ">> \o Commas(Tail(items))
Paren(items) == Tok("Parenthesis", <<"(">> \o Commas(items) \o <<")">>)

\* CREATE TABLE t (...)
CreateSql(column_defs) ==
    <<Tok("DDL", <<"CREATE">>), Tok("Keyword", <<"TABLE">>), Tok("Identifier", <<"t">>),
      Paren(column_defs)>>
ColumnDefTexts ==
    {<<Words(<<"id", "INTEGER", "PRIMARY", "KEY">>), Words(<<"name", "VARCHAR">>)>>,
     <<Words(<<"id", "INTEGER", "PRIMARY", "KEY">>),
       Words(<<"name", "VARCHAR">>) \o <<"(", "2", ")", " ">> \o Words(<<"primary", "key">>)>>,
     <<Words(<<"id", "INTEGER">>),
       Words(<<"name", "VARCHAR">>) \o <<"(", "2", ")", " ">>
           \o Words(<<"UNIQUE", "NOT", "NULL">>)>>,
     <<<<"id">>>>}
\* DROP TABLE t
DropSql == <<Tok("DDL", <<"DROP">>), Tok("Keyword", <<"TABLE">>), Tok("Identifier", <<"t">>)>>

\* the literals of the statements, each with the value it denotes
Literal(text, value) == [text |-> text, value |-> value]
IntLiterals == {Literal(<<StrOfNat(i)>>, IntV(i)) : i \in 1..MaxParsedRows}
FirstLiterals ==
    IntLiterals
    \cup {Literal(<<"'", "a", "'">>, StrV("a")),
          Literal(<<"TRUE">>, BoolV(TRUE)),
          Literal(<<"NULL">>, Null),
          Literal(<<"-", "1">>, IntV(0 - 1)),
          Literal(<<"1", ".", "5">>, FloatV(15)),
          Literal(<<"\"", "a", "\"">>, StrV("a"))}
SecondLiteral == Literal(<<"'", "a", "'">>, StrV("a"))

\* the literal of the SELECT statements' leaves
LeafLiteral == Literal(<<"2">>, IntV(2))

\* INSERT INTO t VALUES (...)
InsertSql(literals) ==
    <<Tok("DML", <<"INSERT">>), Tok("Keyword", <<"INTO">>), Tok("Identifier", <<"t">>),
      Tok("Keyword", <<"VALUES">>),
      Paren([i \in 1..Len(literals) |-> literals[i].text])>>

\* the comparison operators, as written
Operators == {<<"=">>, <<"!", "=">>, <<">">>, <<"<">>, <<">", "=">>, <<"<", "=">>}
\* column op literal
Leaf(column, op, literal) == <<column, " ">> \o op \o <<" ">> \o literal.text
WhereTok(leaf) ==
    [type |-> "Where", value |-> <<"WHERE", " ">> \o leaf,
     tokens |-> <<Tok("Keyword", <<"WHERE">>), Tok("Comparison", leaf)>>]
\* SELECT * FROM t WHERE leaf
SelectSql(leaf) ==
    <<Tok("DML", <<"SELECT">>), Tok("Wildcard", <<"*">>), Tok("Keyword", <<"FROM">>),
      Tok("Identifier", <<"t">>), WhereTok(leaf)>>
\* DELETE FROM t WHERE leaf
DeleteSql(leaf) ==
    <<Tok("DML", <<"DELETE">>), Tok("Keyword", <<"FROM">>), Tok("Identifier", <<"t">>),
      WhereTok(leaf)>>
\* UPDATE t SET name = 'a'
UpdateSql ==
    <<Tok("DML", <<"UPDATE">>), Tok("Identifier", <<"t">>), Tok("Keyword", <<"SET">>),
      Tok("Comparison", Leaf("name", <<"=">>, SecondLiteral))>>

Statements ==
    {CreateSql(column_defs) : column_defs \in ColumnDefTexts}
    \cup {DropSql, UpdateSql}
    \cup {InsertSql(<<first, SecondLiteral>>) : first \in FirstLiterals}
    \cup {InsertSql(<<first>>) : first \in {SecondLiteral}}
    \cup {SelectSql(Leaf("id", op, LeafLiteral)) : op \in Operators}
    \cup {DeleteSql(Leaf("id", <<"=">>, literal)) : literal \in {Literal(<<"1">>, IntV(1))}}

\* REPL(data_file=None)
ParseInit ==
    /\ data_file = FALSE
    /\ disk = NoFile
    /\ schemas = NewEngine(FALSE, NoFile).schemas
    /\ tables = NewEngine(FALSE, NoFile).tables
    /\ indexes = NewEngine(FALSE, NoFile).indexes
    /\ dropped = {}
    /\ last = NoCmd
    /\ api = NoApi

\* what the shell did with the statement: the structured command, when the
\* parser returned one, and the envelope of the executor
Ran(sql, p, result) ==
    [command |-> "SQL", sql |-> sql, raised |-> p.raised, parsed |-> p.parsed,
     result |-> result]

\* REPL._execute_sql
ExecuteSql ==
    \E sql \in Statements : \E p \in {parse(sql)} :
        IF p.raised
        THEN /\ last' = Ran(sql, p, Envelope(FALSE, "Error: " \o p.message))
             /\ UNCHANGED <<schemas, tables, indexes, data_file, disk, dropped, api>>
        ELSE /\ (p.parsed.command = "INSERT" /\ p.parsed.table \in DOMAIN tables)
                    => Len(tables[p.parsed.table]) < MaxParsedRows
             /\ \E order \in (IF p.parsed.command = "CREATE_TABLE"
                              THEN Orders(UniqueSet(p.parsed)) ELSE {<<>>}) :
                    \E r \in {execute(Cur, p.parsed, order)} :
                        /\ schemas' = r.S.schemas
                        /\ tables' = r.S.tables
                        /\ indexes' = r.S.indexes
                        /\ disk' = r.S.disk
                        /\ last' = Ran(sql, p, r.result)
                        /\ dropped' =
                              IF p.parsed.command = "DROP_TABLE" /\ r.result.success
                              THEN dropped \cup {p.parsed.table}
                              ELSE IF p.parsed.command = "CREATE_TABLE" /\ r.result.success
                              THEN dropped \ {p.parsed.table}
                              ELSE dropped
                        /\ UNCHANGED <<data_file, api>>

ParseNext == ExecuteSql
ParseSpec == ParseInit /\ [][ParseNext]_vars

\* C31: when a CREATE TABLE statement marks several columns PRIMARY KEY, the
\* structured command names the first of them, in definition order, as the
\* primary key
C31_FirstMarkedColumnIsPrimaryKey ==
    (last.command = "SQL" /\ ~last.raised /\ last.parsed.command = "CREATE_TABLE") =>
        \A i \in 1..Len(last.parsed.columns) :
            (/\ last.parsed.columns[i].primary_key
             /\ \A j \in 1..(i - 1) : ~last.parsed.columns[j].primary_key)
                => last.parsed.primary_key = last.parsed.columns[i].name

\* C32: a WHERE leaf written with =, !=, >, <, >= or <= is parsed into a
\* condition with the bare column name, that operator and the literal, and the
\* SELECT returns the rows for which the operator holds between the stored
\* value and the literal
C32_LeafKeepsColumnAndOperator ==
    \A op \in Operators :
        (last.command = "SQL" /\ last.sql = SelectSql(Leaf("id", op, LeafLiteral))) =>
            /\ ~last.raised
            /\ last.parsed.where = <<Cond("id", Text(op), LeafLiteral.value)>>
            /\ "t" \in LiveTables =>
                   /\ last.result.success
                   /\ last.result.data =
                          SelectSeq(tables["t"],
                                    LAMBDA row :
                                        MatchLeaf(row, Cond("id", Text(op),
                                                            LeafLiteral.value)) = "T")

\* C33: an INSERT statement without a column list is parsed into a command
\* with no column list and the VALUES literals in order, whatever the first
\* literal is
C33_NoColumnListWhateverFirstLiteral ==
    \A first \in FirstLiterals :
        (last.command = "SQL" /\ last.sql = InsertSql(<<first, SecondLiteral>>)) =>
            /\ ~last.raised
            /\ last.parsed.columns = <<>>
            /\ last.parsed.values = <<first.value, SecondLiteral.value>>

\* C34: null is never indexed and never conflicts: an INSERT whose row has
\* null in a unique-constraint or primary-key column does not fail the
\* uniqueness check on that column, however many rows hold null there, and no
\* lookup in an index returns the position of a row whose indexed column is null.
C34_NullNeverIndexedNeverConflicts ==
    /\ \A parsed \in InsertCmds :
           (parsed.table \in LiveTables /\ CountsMatch(schemas[parsed.table], parsed)) =>
               LET schema == schemas[parsed.table]
                   v == validate_row(schema, InsertInput(schema, parsed))
               IN  v.ok =>
                       \A col_name \in UniqueColumns(schema) :
                           Get(v.row, col_name).k = "null" =>
                               insert_duplicate(Cur, parsed.table,
                                   [schema EXCEPT !.unique_constraints = {col_name},
                                                  !.primary_key = NoPK],
                                   v.row) = ""
    /\ \A table \in DOMAIN indexes \cap DOMAIN tables :
           \A i \in DOMAIN indexes[table], value \in LookupValues \cup {Null} :
               LET positions == lookup(indexes[table][i], value)
               IN  \A k \in 1..Len(positions) :
                       positions[k] < Len(tables[table]) =>
                           Get(tables[table][positions[k] + 1],
                               indexes[table][i].column_name).k # "null"

\* the UPDATE applies to the row
UpdateApplies(row, parsed) ==
    parsed.where = NoWhere \/ AllLeavesHold(row, parsed.where)

\* the UPDATE can be carried out on every row it applies to, and carrying it
\* out leaves two rows with the same non-null value in the primary key or a
\* unique-constraint column
WouldDuplicate(schema, rows, parsed) ==
    LET target == [i \in 1..Len(rows) |->
                      IF UpdateApplies(rows[i], parsed)
                      THEN validate_row(schema, Assign(rows[i], parsed.updates)).row
                      ELSE rows[i]]
    IN  /\ \A i \in 1..Len(rows) :
               /\ parsed.where # NoWhere =>
                      \A k \in 1..Len(parsed.where) :
                          MatchLeaf(rows[i], parsed.where[k]) # "raise"
               /\ UpdateApplies(rows[i], parsed) =>
                      validate_row(schema, Assign(rows[i], parsed.updates)).ok
        /\ \E column_name \in UniqueColumns(schema) : HasDuplicate(target, column_name)

\* C35: an UPDATE that would leave two rows of the table with the same
\* non-null value in the primary key or a unique-constraint column returns
\* success=false and leaves the table's rows and all of its indexes as they
\* were before it.
C35_DuplicatingUpdateChangesNothing ==
    \A parsed \in UpdateCmds :
        (/\ parsed.table \in LiveTables \cap DOMAIN indexes
         /\ WouldDuplicate(schemas[parsed.table], tables[parsed.table], parsed)) =>
            LET r == execute(Cur, parsed, <<>>)
            IN  /\ ~r.result.success
                /\ r.S.tables[parsed.table] = tables[parsed.table]
                /\ r.S.indexes[parsed.table] = indexes[parsed.table]

\* the SELECTs of the model: with and without WHERE, JOIN, projection,
\* ORDER BY and LIMIT, on tables that exist and on tables that do not
ReadCmds ==
    SelectCmds \cup WhereCmds \cup OrderCmds \cup LimitCmds \cup JoinCmds
        \cup {SelectCmd(table, <<"name">>, NoWhere, NoJoin, "id", 1) : table \in {"t", "u"}}

\* C36: a SELECT, successful or failed, changes nothing: the schemas, every
\* table's row sequence, every index and the persisted snapshot are the same
\* after it as before.
C36_SelectChangesNothing ==
    \A parsed \in ReadCmds : execute(Cur, parsed, <<>>).S = Cur

\* with a snapshot on disk, a table holds its two rows in descending order of
\* id: SELECT * ORDER BY id returns them in ascending order and a SELECT with a
\* WHERE that cannot be evaluated fails
C36_Witness ==
    /\ disk.exists
    /\ "t" \in LiveTables
    /\ Len(tables["t"]) = 2
    /\ PyLess(tables["t"][2].id, tables["t"][1].id)
    /\ \E parsed \in OrderCmds :
           LET r == execute(Cur, parsed, <<>>)
           IN  /\ parsed.columns = <<"*">> /\ parsed.order_by = "id"
               /\ r.result.success
               /\ r.result.data = <<tables["t"][2], tables["t"][1]>>
    /\ \E parsed \in WhereCmds : ~execute(Cur, parsed, <<>>).result.success

\* C37: for every successful SELECT the envelope's columns names the
\* projection present in data: every row of data has exactly the keys listed
\* in columns, also for SELECT * and also with a JOIN.
C37_ColumnsNameDataKeys ==
    \A parsed \in ReadCmds :
        LET result == execute(Cur, parsed, <<>>).result
        IN  result.success =>
                \A i \in 1..Len(result.data) :
                    DOMAIN result.data[i]
                        = {result.columns[k] : k \in 1..Len(result.columns)}

\* the commands that name a table to change: CREATE, DROP, INSERT, UPDATE, DELETE
WriteCmds == CreateCmds \cup DropCmds \cup InsertCmds \cup UpdateCmds \cup DeleteCmds

\* the two dicts agree on the key: both lack it or both map it to the same
SameAt(before, after, key) ==
    /\ key \in DOMAIN before <=> key \in DOMAIN after
    /\ key \in DOMAIN before => before[key] = after[key]

\* C38: a CREATE, DROP, INSERT, UPDATE or DELETE that names table t leaves the
\* schema, the row sequence and the indexes of every other table unchanged,
\* whether it succeeds or fails.
C38_OtherTablesUnchanged ==
    \A parsed \in WriteCmds :
        \A order \in OrdersOf(parsed) :
            LET S == execute(Cur, parsed, order).S
            IN  \A other \in (DOMAIN schemas \cup DOMAIN tables \cup DOMAIN indexes
                              \cup DOMAIN S.schemas \cup DOMAIN S.tables
                              \cup DOMAIN S.indexes) \ {parsed.table} :
                    /\ SameAt(schemas, S.schemas, other)
                    /\ SameAt(tables, S.tables, other)
                    /\ SameAt(indexes, S.indexes, other)

\* tables t and u both hold rows and index entries: a DROP TABLE t succeeds,
\* an UPDATE of t fails, and an UPDATE and a DELETE of t succeed and change t
C38_Witness ==
    /\ {"t", "u"} \subseteq LiveTables \cap DOMAIN indexes
    /\ Len(tables["t"]) >= 2 /\ Len(tables["u"]) >= 1
    /\ \E i \in DOMAIN indexes["u"] : indexes["u"][i].index_map # <<>>
    /\ \E parsed \in DropCmds :
           LET r == execute(Cur, parsed, <<>>)
           IN  r.result.success /\ "t" \notin DOMAIN r.S.indexes
    /\ \E parsed \in UpdateCmds :
           LET r == execute(Cur, parsed, <<>>)
           IN  ~r.result.success /\ r.S.tables["t"] # tables["t"]
    /\ \E parsed \in UpdateCmds \cup DeleteCmds :
           LET r == execute(Cur, parsed, <<>>)
           IN  r.result.success /\ r.S.tables["t"] # tables["t"]

\* C39: after DROP TABLE t followed by CREATE TABLE t the new table carries
\* nothing over from the old one: the CREATE does what it does on an engine
\* that never had t, the table has zero rows, its indexes are empty, and an
\* INSERT succeeds, the INSERT of a key value the dropped table held included.
C39_RecreatedTableCarriesNothingOver ==
    \A create \in CreateCmds :
        \A order \in OrdersOf(create) :
            LET table_name == create.table
                dropping == execute(Cur, DropCmd(table_name), <<>>)
                creating == execute(dropping.S, create, order)
                fresh == execute(NewEngine(FALSE, NoFile), create, order)
            IN  (dropping.result.success /\ fresh.result.success) =>
                    /\ creating.result.success
                    /\ creating.S.schemas[table_name] = fresh.S.schemas[table_name]
                    /\ creating.S.tables[table_name] = <<>>
                    /\ creating.S.indexes[table_name] = fresh.S.indexes[table_name]
                    /\ \A i \in DOMAIN creating.S.indexes[table_name] :
                           creating.S.indexes[table_name][i].index_map = <<>>
                    /\ \A insert \in InsertCmds :
                           execute(fresh.S, insert, <<>>).result.success =>
                               execute(creating.S, insert, <<>>).result.success

\* table t holds two rows, the first with key 1 and name 'a', and both its
\* indexes have entries: after DROP TABLE t and CREATE TABLE t the INSERT of
\* (1, 'a') succeeds, which it does not before the DROP
C39_Witness ==
    /\ "t" \in LiveTables \cap DOMAIN indexes
    /\ Len(tables["t"]) = 2
    /\ tables["t"][1] = [id |-> IntV(1), name |-> StrV("a")]
    /\ lookup(get_index(indexes, "t", "id"), IntV(1)) = <<0>>
    /\ lookup(get_index(indexes, "t", "name"), StrV("a")) = <<0>>
    /\ \E create \in CreateCmds :
           LET held == InsertCmd("t", <<>>, <<IntV(1), StrV("a")>>)
               dropping == execute(Cur, DropCmd("t"), <<>>)
               creating == execute(dropping.S, create, <<"name">>)
           IN  /\ held \in InsertCmds
               /\ ~execute(Cur, held, <<>>).result.success
               /\ dropping.result.success
               /\ creating.result.success
               /\ execute(creating.S, held, <<>>).result.success
====
